---- MODULE Spec2Model ----
(***************************************************************************)
(* A model of the OS.js node server: the VFS dispatcher (lib/vfs.js), the  *)
(* default filesystem transport (modules/vfs/filesystem.js), the request   *)
(* pipeline of the HTTP server (server.js, lib/instance.js), and the       *)
(* package manager (lib/packagemanager.js).                                *)
(*                                                                         *)
(* Strings are modelled as sequences of atoms.  An atom is one of the      *)
(* separators "://" and "/", or a run of characters holding neither.       *)
(***************************************************************************)
EXTENDS Integers, Sequences, FiniteSets, TLC

VARIABLES
    mounts,        \* instance.CONFIG.vfs.mounts, loaded once at startup
    registered,    \* names of the transport modules in instance.VFS
    vfsCall,       \* the last call of lib.vfs request: method, GET/POST, data
    vfsOutcome,    \* how that call ended
    vfsRejectMsg,  \* the message passed to reject, if any
    vfsForwarded,  \* the transport.request invocations the call made
    fs,            \* the real filesystem: existing path |-> [kind, data]
    pc,            \* the pending callback of the transport call in flight
    op,            \* that call: method, arguments and resolved paths
    settled,       \* the resolve and reject calls it has made, in order
    threw,         \* an exception escaped one of its callbacks
    responded,     \* the http.respond calls the transport made itself
    fsFailed,      \* an underlying filesystem call reported an error
    removed,       \* the paths the call has removed from the filesystem
    calls,         \* the number of transport calls made so far
    session,       \* the session store: the session's username, "" if none
    hreq,          \* the inbound request being served
    hpc,           \* the pending callback of the request pipeline
    gates,         \* the checkSession/checkPermission calls so far, with results
    handlerCalls,  \* the invocations of the VFS dispatcher or the API method
    responses,     \* what has been written to the response
    rejection,     \* the message of the rejection the pipeline caught, if any
    proxyCalls,    \* the proxy rules proxy.web was called with for the request
    proxy,         \* proxyServer: whether http-proxy could be loaded
    proxies,       \* instance.CONFIG.proxies, its rules in key order
    pkcall,        \* the package manager call in progress and its arguments
    pkpc,          \* the pending callback of that call
    pksettled,     \* the resolve and reject calls it has made, in order
    pkresult,      \* the message of its rejection, if any
    pkindex,       \* the position of its iteration over args.paths
    pkbase,        \* list: the metadata object it sums into
    pksummed,      \* getUserMetadata, generateUserMetadata: their summed object
    pklist,        \* generateUserMetadata: the directory entries still to visit
    pkemitted,     \* install: the archive entries the decoder has emitted
    pkwrites,      \* install: the state of each emitted entry's write stream
    pkdeletes,     \* install: the cleanup deletes that have finished
    pkfailed,      \* a step of the call has failed
    pkcalls,       \* the number of package manager calls made so far
    resolution,    \* the last call of resolveRequestPath and what it returned
    listing,       \* the last find without recursion and what it resolved with
    handlers,      \* the client Handler objects constructed so far
    handlerInstance, \* the client's _handlerInstance
    constructed,   \* how the last call of the Handler constructor ended
    got,           \* what the last call of getHandler returned
    wsindex,       \* Connection: this.index
    wsqueue,       \* Connection: this.wsqueue, _index |-> success callback
    wscalls,       \* the callWS calls made so far
    wsinvoked,     \* the callbacks invoked so far, in order
    wsarrived,     \* the number of WebSocket messages that have arrived
    offline,       \* Handler: this.offline
    netEvent,      \* the last of the window's 'offline' and 'online' events
    connType,      \* the configured Connection.Type
    apicalls,      \* the callAPI calls made so far and what each of them did
    saveTimeout,   \* Handler: this._saveTimeout
    timers,        \* the timers saveSettings has set that are still pending
    timerCount,    \* the number of timers set so far
    storageCalls,  \* the calls of storage.settings made so far
    bursts,        \* the saveSettings calls made while no save was pending
    bootpc,        \* the step of the server's start-up that runs next
    bootloaded,    \* what the start-up has loaded and registered, in order
    listening,     \* httpServer.listen was called
    bootenv,       \* the installation: its module files and the one that fails
    caller,        \* the http object of the request the server is handling
    permitted,     \* _vfsCall: the method checkPermission was asked about
    wstream        \* what the last createWriteStream of lib/vfs.js gave

serverVars == <<session, hreq, hpc, gates, handlerCalls, responses, rejection,
                proxyCalls, proxy, proxies>>

pkgVars == <<pkcall, pkpc, pksettled, pkresult, pkindex, pkbase, pksummed,
             pklist, pkemitted, pkwrites, pkdeletes, pkfailed, pkcalls>>

\* The resolver on its own, and the client
handlerVars == <<handlers, handlerInstance, constructed, got>>

connVars == <<wsindex, wsqueue, wscalls, wsinvoked, wsarrived>>

apiVars == <<offline, netEvent, connType, apicalls>>

settingsVars == <<saveTimeout, timers, timerCount, storageCalls, bursts>>

bootVars == <<bootpc, bootloaded, listening, bootenv>>

gatewayVars == <<caller, permitted, wstream>>

auxVars == <<resolution, listing, handlerVars, connVars, apiVars, settingsVars,
             bootVars, gatewayVars>>

dispatchVars == <<mounts, registered, vfsCall, vfsOutcome, vfsRejectMsg,
                  vfsForwarded>>

transportVars == <<fs, pc, op, settled, threw, responded, fsFailed, removed,
                   calls>>

\* What the transport's actions leave alone
dispatchState == <<registered, vfsCall, vfsOutcome, vfsRejectMsg, vfsForwarded,
                   serverVars, pkgVars, auxVars>>

vars == <<dispatchVars, transportVars, serverVars, pkgVars, auxVars>>

-----------------------------------------------------------------------------
(* Sequences of atoms *)

SEP == "://"

SLASH == "/"

\* The value JavaScript coerces undefined to, as a property key or by String()
UNDEFINED == <<"undefined">>

\* A data field that the request does not carry
MISSING == <<"<missing>">>

RECURSIVE LastIndexOf(_, _, _)
LastIndexOf(s, a, i) ==
    IF i = 0 THEN 0
    ELSE IF s[i] = a THEN i ELSE LastIndexOf(s, a, i - 1)

\* query.split(/(.*)\:\/\/(.*)/): the first group is greedy, so the string is
\* cut at its last "://"; without one, parts[1] and parts[2] are undefined.
SplitQuery(query) ==
    LET i == LastIndexOf(query, SEP, Len(query))
    IN  IF i = 0
        THEN [protocol |-> UNDEFINED, rest |-> UNDEFINED]
        ELSE [protocol |-> SubSeq(query, 1, i - 1),
              rest     |-> SubSeq(query, i + 1, Len(query))]

\* s.replace(/^\/+?/, r): the lazy quantifier matches exactly one leading "/"
ReplaceLeadingSlash(s, r) ==
    IF Len(s) > 0 /\ s[1] = SLASH THEN r \o Tail(s) ELSE s

-----------------------------------------------------------------------------
(* Mount configuration *)

\* A mount is a template string, or an object {destination, transport,
\* enabled, ro} any field of which may be absent ("unset").
StringMount(dest) ==
    [kind |-> "string", destination |-> dest, transport |-> "unset",
     enabled |-> "unset", ro |-> "unset"]

ObjectMount(dest, transport, enabled, ro) ==
    [kind |-> "object", destination |-> dest, transport |-> transport,
     enabled |-> enabled, ro |-> ro]

NoMount == [kind |-> "undefined", destination |-> <<>>, transport |-> "unset",
            enabled |-> "unset", ro |-> "unset"]

\* Names every object inherits from Object.prototype
ObjectPrototype == {"constructor", "toString", "hasOwnProperty", "__proto__"}

\* What such a name yields on the mounts object: a function, or for __proto__
\* an object; neither is a string nor has a destination
InheritedMember ==
    [kind |-> "inherited", destination |-> UNDEFINED, transport |-> "unset",
     enabled |-> "unset", ro |-> "unset"]

\* mountpoints[protocol]: a configured key, else a member the object
\* inherits, else undefined
MountOf(m, protocol) ==
    CASE Len(protocol) = 1 /\ protocol[1] \in DOMAIN m -> m[protocol[1]]
      [] Len(protocol) = 1 /\ protocol[1] \in ObjectPrototype -> InheritedMember
      [] OTHER -> NoMount

-----------------------------------------------------------------------------
(* modules/vfs/filesystem.js: resolveRequestPath *)

\* instance.DIST
DistName == <<"dist">>

\* instance.DIRS.root
DirsRoot == <<SLASH, "opt", SLASH, "osjs">>

\* found.replace(new RegExp(token, 'g'), value): every occurrence is replaced
RECURSIVE ReplaceAll(_, _, _)
ReplaceAll(s, token, value) ==
    IF s = <<>> THEN <<>>
    ELSE (IF Head(s) = token THEN value ELSE <<Head(s)>>)
         \o ReplaceAll(Tail(s), token, value)

\* Object.keys(rmap).forEach: the five placeholders, replaced one after the
\* other in the order the map lists them
SubstituteTokens(found, username, protocol) ==
    LET s1 == ReplaceAll(found, "%DIST%", DistName)
        s2 == ReplaceAll(s1, "%UID%", username)
        s3 == ReplaceAll(s2, "%USERNAME%", username)
        s4 == ReplaceAll(s3, "%DROOT%", DirsRoot)
    IN  ReplaceAll(s4, "%MOUNTPOINT%", protocol)

\* path.normalize on the segments of a path: "." is dropped, ".." removes the
\* segment before it; at the root of an absolute path ".." is dropped, in a
\* relative path it is kept.
RECURSIVE NormalizeSegs(_, _, _)
NormalizeSegs(todo, done, abs) ==
    IF todo = <<>> THEN done
    ELSE LET h == Head(todo)
         IN  CASE h = "." -> NormalizeSegs(Tail(todo), done, abs)
               [] h = ".." ->
                    IF done # <<>> /\ done[Len(done)] # ".."
                    THEN NormalizeSegs(Tail(todo),
                                       SubSeq(done, 1, Len(done) - 1), abs)
                    ELSE IF abs
                    THEN NormalizeSegs(Tail(todo), done, abs)
                    ELSE NormalizeSegs(Tail(todo), Append(done, h), abs)
               [] OTHER -> NormalizeSegs(Tail(todo), Append(done, h), abs)

\* The segments between the slashes of a string
Segments(s) == SelectSeq(s, LAMBDA a : a # SLASH)

\* path.normalize
Normalize(s) ==
    LET abs == s # <<>> /\ s[1] = SLASH
    IN  [abs |-> abs, segs |-> NormalizeSegs(Segments(s), <<>>, abs)]

\* path.join(a, b): the non-empty arguments joined by "/" and normalized
PathJoin(a, b) ==
    Normalize(IF b = <<>> THEN a ELSE IF a = <<>> THEN b ELSE a \o <<SLASH>> \o b)

NullPath == [abs |-> FALSE, segs |-> <<"<null>">>]

\* mountpoints[protocol] || mountpoints['*'], then .destination of an object
MountDestination(m, protocol) ==
    LET own   == MountOf(m, protocol)
        found == IF own.kind # "undefined" THEN own ELSE MountOf(m, <<"*">>)
    IN  IF found.kind = "undefined" \/ found.destination = UNDEFINED
        THEN UNDEFINED ELSE found.destination

\* resolveRequestPath: {query, protocol, path, real}
resolveRequestPath(m, username, query) ==
    LET parts    == SplitQuery(query)
        protocol == parts.protocol
        path     == ReplaceLeadingSlash(parts.rest, <<>>)
        found    == MountDestination(m, protocol)
    IN  [query    |-> query,
         protocol |-> protocol,
         path     |-> path,
         real     |-> IF found = UNDEFINED THEN NullPath
                      ELSE PathJoin(SubstituteTokens(found, username, protocol),
                                    path)]

-----------------------------------------------------------------------------
(* lib/vfs.js: the VFS dispatcher *)

VfsMethods == {"exists", "read", "upload", "write", "delete", "copy", "move",
               "mkdir", "find", "fileinfo", "scandir", "freeSpace"}

writeableMap == {"upload", "write", "delete", "copy", "move", "mkdir"}

\* argumentMap[method] || argumentMap._default, applied to (args, dest)
argumentMap(method, args, dest) ==
    CASE method = "freeSpace"        -> args.root
      [] method \in {"move", "copy"} -> IF dest THEN args.dest ELSE args.src
      [] OTHER                       -> args.path

\* findTransport calls the extractor with args alone: dest is undefined
findTransportQuery(method, args) == argumentMap(method, args, FALSE)

\* A dispatcher that forgets the read-only flag
MountDeniesIgnoringRo(mount, method) ==
    /\ mount.kind = "object"
    /\ mount.enabled = "false"

\* A dispatcher that applies the enabled flag to the writing methods only
MountDeniesWritesOnly(mount, method) ==
    /\ mount.kind = "object"
    /\ method \in {"upload", "write", "delete", "copy", "move", "mkdir"}
    /\ (mount.enabled = "false" \/ mount.ro = "true")

\* mount.enabled === false || (mount.ro === true && writeable method)
MountDenies(mount, method) ==
    /\ mount.kind = "object"
    /\ \/ mount.enabled = "false"
       \/ mount.ro = "true" /\ method \in writeableMap

\* A dispatcher that sends every mount to the default transport
TransportNameDefault(mount) == "__default__"

\* The transport named by the mount, '__default__' unless the mount is an
\* object whose transport field is a string
TransportName(mount) ==
    IF mount.kind = "object" /\ mount.transport # "unset"
    THEN mount.transport ELSE "__default__"

\* findTransport: "throws" when the address field is missing (undefined has
\* no split), false ("denied") for a disabled or read-only mount, else the
\* parsed address and the registered transport of that name, if any.
findTransport(m, reg, method, args) ==
    LET query  == findTransportQuery(method, args)
        parts  == SplitQuery(query)
        parsed == [query    |-> query,
                   protocol |-> parts.protocol,
                   path     |-> ReplaceLeadingSlash(parts.rest, <<SLASH>>)]
        mount  == MountOf(m, parsed.protocol)
        name   == TransportName(mount)
    IN  IF query = MISSING
        THEN [result |-> "throws", parsed |-> parsed, transport |-> "none"]
        ELSE IF MountDenies(mount, method)
        THEN [result |-> "denied", parsed |-> parsed, transport |-> "none"]
        ELSE [result |-> "found", parsed |-> parsed,
              transport |-> IF name \in reg THEN name ELSE "none"]

\* http.endpoint.replace(/(^get\/)?/, '')
StripGet(endpoint) ==
    IF Len(endpoint) >= 2 /\ endpoint[1] = "get" /\ endpoint[2] = SLASH
    THEN SubSeq(endpoint, 3, Len(endpoint)) ELSE endpoint

NoData == [path |-> MISSING, src |-> MISSING, dest |-> MISSING, root |-> MISSING]

NoCall == [verb |-> "none", endpoint |-> <<>>, data |-> NoData]

\* The data and the method name lib.vfs request works on
RequestData(call) ==
    IF call.verb = "GET"
    THEN [NoData EXCEPT !.path = StripGet(call.endpoint)]
    ELSE call.data

RequestFn(call) == IF call.verb = "GET" THEN "read" ELSE call.endpoint[1]

\* module.exports.request of lib/vfs.js, as the outcome of one call
DispatchOutcome(m, reg, call) ==
    LET data  == RequestData(call)
        fn    == RequestFn(call)
        found == findTransport(m, reg, fn, data)
    IN  CASE found.result = "throws" ->
               [outcome |-> "threw", msg |-> "TypeError", forwarded |-> <<>>]
          [] found.result = "denied" ->
               [outcome |-> "rejected", msg |-> "Operation denied!",
                forwarded |-> <<>>]
          [] found.result = "found" /\ found.transport = "none" ->
               [outcome |-> "rejected", msg |-> "Cannot find VFS module for: ",
                forwarded |-> <<>>]
          [] OTHER ->
               [outcome |-> "forwarded", msg |-> "",
                forwarded |-> << [transport |-> found.transport,
                                  query     |-> found.parsed.query,
                                  method    |-> fn,
                                  data      |-> data] >>]

\* One call of lib.vfs request
VfsRequest(call) ==
    LET o == DispatchOutcome(mounts, registered, call)
    IN  /\ vfsCall' = call
        /\ vfsOutcome' = o.outcome
        /\ vfsRejectMsg' = o.msg
        /\ vfsForwarded' = o.forwarded
        /\ UNCHANGED <<mounts, registered, transportVars, serverVars, pkgVars,
                       auxVars>>

-----------------------------------------------------------------------------
(* The filesystem under the default transport *)

Dir == [kind |-> "dir", data |-> <<>>]

File(d) == [kind |-> "file", data |-> d]

IsPrefix(a, b) == Len(a) <= Len(b) /\ SubSeq(b, 1, Len(a)) = a

Parent(p) == SubSeq(p, 1, Len(p) - 1)

FsExists(f, p) == p \in DOMAIN f

FsIsDir(f, p) == FsExists(f, p) /\ f[p].kind = "dir"

FsIsFile(f, p) == FsExists(f, p) /\ f[p].kind = "file"

\* The paths at and below p
Subtree(f, p) == {q \in DOMAIN f : IsPrefix(p, q)}

\* fs.remove: p and everything below it
FsRemove(f, p) == [q \in DOMAIN f \ Subtree(f, p) |-> f[q]]

\* A file created or replaced at p
FsPut(f, p, node) == [q \in DOMAIN f \cup {p} |-> IF q = p THEN node ELSE f[q]]

\* fs.copy: the tree at s, also at d
FsCopy(f, s, d) ==
    LET new == {d \o SubSeq(q, Len(s) + 1, Len(q)) : q \in Subtree(f, s)}
    IN  [q \in DOMAIN f \cup new |->
            IF q \in new THEN f[s \o SubSeq(q, Len(d) + 1, Len(q))] ELSE f[q]]

\* fs.rename: the tree at s moves to d
FsRename(f, s, d) == FsRemove(FsCopy(f, s, d), s)

\* A file can be created at p: its directory exists and p is no directory
FsWritable(f, p) == p # <<>> /\ FsIsDir(f, Parent(p)) /\ ~FsIsDir(f, p)

-----------------------------------------------------------------------------
(* modules/vfs/filesystem.js: the default transport *)

\* The number of transport calls a behaviour holds
MaxCalls == 2

\* http.session.get('username')
SessionUser == <<"alice">>

\* http.files.upload: the temporary file of a multipart upload and its name
UploadSource == <<"tmp", "upload_0">>

UploadName == "a.txt"

UploadData == <<"u">>

Idle == [method |-> "none", path |-> MISSING, dest |-> MISSING, mode |-> "",
         real |-> <<>>, real2 |-> <<>>]

\* The call with its addresses resolved
OpOf(c) ==
    [method |-> c.method, path |-> c.path, dest |-> c.dest, mode |-> c.mode,
     real   |-> resolveRequestPath(mounts, SessionUser, c.path).real.segs,
     real2  |-> IF c.dest = MISSING THEN <<>>
                ELSE resolveRequestPath(mounts, SessionUser, c.dest).real.segs]

None == [how |-> "none", value |-> ""]

Resolved(value) == [how |-> "resolve", value |-> value]

Rejected(msg) == [how |-> "reject", value |-> msg]

\* module.exports.request: VFS[req.method] is called with fresh resolve and
\* reject callbacks.  The method resolves its addresses and runs to its first
\* filesystem call, whose callback is `next`; it may settle or respond before.
BeginWith(c, next, settle, resp, newfs) ==
    /\ pc = "idle"
    /\ calls < MaxCalls
    /\ calls' = calls + 1
    /\ op' = OpOf(c)
    /\ pc' = next
    /\ settled' = IF settle = None THEN <<>> ELSE <<settle>>
    /\ threw' = FALSE
    /\ responded' = resp
    /\ fsFailed' = FALSE
    /\ removed' = {}
    /\ fs' = newfs
    /\ UNCHANGED <<mounts, dispatchState>>

Begin(c, next) == BeginWith(c, next, None, <<>>, fs)

\* A callback runs: it may settle the call, and leaves the filesystem as the
\* call it answers left it; `failed` says that call reported an error
Callback(next, settle, failed, newfs) ==
    /\ pc' = next
    /\ settled' = IF settle = None THEN settled ELSE Append(settled, settle)
    /\ fsFailed' = (fsFailed \/ failed)
    /\ fs' = newfs
    /\ removed' = removed \cup (DOMAIN fs \ DOMAIN newfs)
    /\ UNCHANGED <<op, threw, responded, calls, mounts, dispatchState>>

\* A callback throws: nothing catches it (uncaughtException logs it) and the
\* call is left as it is
CallbackThrows(failed) ==
    /\ pc' = "done"
    /\ threw' = TRUE
    /\ fsFailed' = (fsFailed \/ failed)
    /\ UNCHANGED <<op, settled, responded, fs, removed, calls, mounts,
                 dispatchState>>

\* existsWrapper(checkFound, real, resolve, reject): which callback it calls.
\* With checkFound an existing path rejects, without it a missing one does.
existsWrapper(checkFound, real) ==
    IF checkFound
    THEN (IF FsExists(fs, real)
          THEN Rejected("File or directory already exist.") ELSE Resolved("true"))
    ELSE (IF FsExists(fs, real)
          THEN Resolved("true") ELSE Rejected("No such file or directory"))

\* An existsWrapper whose resolve callback starts the next filesystem call and
\* whose reject callback is the call's own reject
ExistsThen(checkFound, real, next) ==
    LET r == existsWrapper(checkFound, real)
    IN  IF r.how = "resolve"
        THEN Callback(next, None, FALSE, fs)
        ELSE Callback("done", r, FALSE, fs)

\* VFS.exists
CallExists(c) ==
    /\ c.method = "exists"
    /\ Begin(c, "exists_cb")

ExistsCb ==
    /\ pc = "exists_cb"
    /\ Callback("done", existsWrapper(TRUE, op.real), FALSE, fs)

\* VFS.read: unless options.raw or options.stream is false the file is piped to
\* the response, and neither resolve nor reject is called
CallRead(c) ==
    /\ c.method = "read"
    /\ IF c.mode = "stream"
       THEN BeginWith(c, "done", None, <<"stream">>, fs)
       ELSE Begin(c, "readFile_cb")

\* The callback of fs.readFile.  In the base64 mode the block declares a
\* const named like the parameter it reads, so reading it throws.
ReadFileCb ==
    /\ pc = "readFile_cb"
    /\ \E err \in BOOLEAN :
        /\ ~err => FsIsFile(fs, op.real)
        /\ IF err THEN Callback("done", Rejected("readFile error"), TRUE, fs)
           ELSE IF op.mode = "buffer"
           THEN Callback("done", Resolved("buffer"), FALSE, fs)
           ELSE CallbackThrows(FALSE)

UploadDest == op.real \o <<UploadName>>

\* VFS.upload; the multipart parser has written the temporary file
CallUpload(c) ==
    /\ c.method = "upload"
    /\ BeginWith(c, "upload_source_cb", None, <<>>,
                 FsPut(fs, UploadSource, File(UploadData)))

UploadSourceCb ==
    /\ pc = "upload_source_cb"
    /\ ExistsThen(FALSE, UploadSource,
                  IF op.mode = "overwrite" THEN "upload_stream"
                  ELSE "upload_dest_cb")

\* An upload that transfers without looking at the destination
UploadDestCbUnchecked ==
    /\ pc = "upload_dest_cb"
    /\ Callback("upload_stream", None, FALSE, fs)

UploadDestCb ==
    /\ pc = "upload_dest_cb"
    /\ ExistsThen(TRUE, UploadDest, "upload_stream")

\* What another request uploads under the same name
OtherUploadData == <<"o">>

\* Another request's upload of the same name into the same directory, without
\* overwrite=true, passes its own check of the destination and finishes its
\* transfer after this call's check of the destination and before this
\* call's transfer ends
ConcurrentUpload ==
    /\ pc = "upload_stream"
    /\ FsIsDir(fs, Parent(UploadDest))
    /\ ~FsExists(fs, UploadDest)
    /\ fs' = FsPut(fs, UploadDest, File(OtherUploadData))
    /\ UNCHANGED <<pc, op, settled, threw, responded, fsFailed, removed, calls,
                 mounts, dispatchState>>

\* streamError: one of the two streams reports an error.  The write stream
\* is opened with flags 'w', so the destination may have been truncated.
UploadStreamError ==
    /\ pc = "upload_stream"
    /\ \E truncated \in BOOLEAN :
        /\ truncated => FsWritable(fs, UploadDest)
        /\ Callback("done", Rejected("stream error"), TRUE,
                    IF truncated THEN FsPut(fs, UploadDest, File(<<>>)) ELSE fs)

\* streamDone: the write stream closes after the pipe
UploadStreamDone ==
    /\ pc = "upload_stream"
    /\ FsIsFile(fs, UploadSource)
    /\ FsWritable(fs, UploadDest)
    /\ Callback("upload_unlink_cb", None, FALSE,
                FsPut(fs, UploadDest, File(fs[UploadSource].data)))

\* The callback of fs.unlink(source) answers the request itself; it calls
\* neither resolve nor reject
UploadUnlinkCb ==
    /\ pc = "upload_unlink_cb"
    /\ pc' = "done"
    /\ responded' = Append(responded, "raw")
    /\ \E err \in BOOLEAN :
        /\ fs' = IF err THEN fs ELSE FsRemove(fs, UploadSource)
        /\ fsFailed' = (fsFailed \/ err)
    /\ UNCHANGED <<op, settled, threw, removed, calls, mounts, dispatchState>>

WriteData == <<"w">>

\* VFS.write
CallWrite(c) ==
    /\ c.method = "write"
    /\ Begin(c, "writeFile_cb")

WriteFileCb ==
    /\ pc = "writeFile_cb"
    /\ \E err \in BOOLEAN :
        /\ ~err => FsWritable(fs, op.real)
        /\ IF err THEN Callback("done", Rejected("Error writing file: "), TRUE, fs)
           ELSE Callback("done", Resolved("true"), FALSE,
                         FsPut(fs, op.real, File(WriteData)))

\* ['', '.', '/'].indexOf() !== -1: indexOf is called without an argument and
\* looks for undefined
DeleteProtected == {<<>>, <<".">>, <<SLASH>>}

DeleteRefused == UNDEFINED \in DeleteProtected

\* VFS.delete
CallDelete(c) ==
    /\ c.method = "delete"
    /\ IF DeleteRefused
       THEN BeginWith(c, "done", Rejected("Permission denied"), <<>>, fs)
       ELSE Begin(c, "delete_exists_cb")

DeleteExistsCb ==
    /\ pc = "delete_exists_cb"
    /\ ExistsThen(FALSE, op.real, "remove_cb")

RemoveCb ==
    /\ pc = "remove_cb"
    /\ \E err \in BOOLEAN :
        IF err THEN Callback("done", Rejected("Error deleting: "), TRUE, fs)
        ELSE Callback("done", Resolved("true"), FALSE, FsRemove(fs, op.real))

\* VFS.copy
CallCopy(c) ==
    /\ c.method = "copy"
    /\ Begin(c, "copy_src_cb")

CopySrcCb ==
    /\ pc = "copy_src_cb"
    /\ ExistsThen(FALSE, op.real, "copy_dest_cb")

CopyDestCb ==
    /\ pc = "copy_dest_cb"
    /\ ExistsThen(TRUE, op.real2, "copy_access_cb")

\* The callback of fs.access(dirname(dest), W_OK): on an error it calls
\* `callback`, a name that is not defined anywhere
CopyAccessCb ==
    /\ pc = "copy_access_cb"
    /\ \E err \in BOOLEAN :
        /\ ~err => FsIsDir(fs, Parent(op.real2))
        /\ IF err THEN CallbackThrows(TRUE)
           ELSE Callback("copy_cb", None, FALSE, fs)

CopyCb ==
    /\ pc = "copy_cb"
    /\ \E err \in BOOLEAN :
        /\ ~err => /\ FsExists(fs, op.real)
                   /\ FsIsDir(fs, Parent(op.real2))
                   /\ ~FsExists(fs, op.real2)
                   /\ ~IsPrefix(op.real, op.real2)
        /\ IF err THEN Callback("done", Rejected("Error copying: "), TRUE, fs)
           ELSE Callback("done", Resolved("true"), FALSE,
                         FsCopy(fs, op.real, op.real2))

\* VFS.move
CallMove(c) ==
    /\ c.method = "move"
    /\ Begin(c, "move_src_cb")

MoveSrcCb ==
    /\ pc = "move_src_cb"
    /\ \E err \in BOOLEAN :
        /\ ~err => FsExists(fs, op.real)
        /\ IF err THEN Callback("done", Rejected("Cannot read source"), TRUE, fs)
           ELSE Callback("move_dest_cb", None, FALSE, fs)

MoveDestCb ==
    /\ pc = "move_dest_cb"
    /\ \E err \in BOOLEAN :
        /\ ~err => FsIsDir(fs, Parent(op.real2))
        /\ IF err
           THEN Callback("done", Rejected("Cannot write to destination"), TRUE, fs)
           ELSE Callback("rename_cb", None, FALSE, fs)

RenameCb ==
    /\ pc = "rename_cb"
    /\ \E err \in BOOLEAN :
        /\ ~err => /\ FsExists(fs, op.real)
                   /\ FsIsDir(fs, Parent(op.real2))
                   /\ ~IsPrefix(op.real, op.real2)
                   /\ \/ ~FsExists(fs, op.real2)
                      \/ FsIsFile(fs, op.real) /\ FsIsFile(fs, op.real2)
        /\ IF err
           THEN Callback("done", Rejected("Error renaming/moving: "), TRUE, fs)
           ELSE Callback("done", Resolved("true"), FALSE,
                         FsRename(fs, op.real, op.real2))

\* VFS.mkdir
CallMkdir(c) ==
    /\ c.method = "mkdir"
    /\ Begin(c, "mkdir_exists_cb")

MkdirExistsCb ==
    /\ pc = "mkdir_exists_cb"
    /\ ExistsThen(TRUE, op.real, "mkdir_cb")

\* The callback of fs.mkdir: on an error it builds its message from `error`,
\* a name that is not defined (the parameter is err)
MkdirCb ==
    /\ pc = "mkdir_cb"
    /\ \E err \in BOOLEAN :
        /\ ~err => FsIsDir(fs, Parent(op.real)) /\ ~FsExists(fs, op.real)
        /\ IF err THEN CallbackThrows(TRUE)
           ELSE Callback("done", Resolved("true"), FALSE, FsPut(fs, op.real, Dir))

\* Another request's mkdir of the same path completes between this call's
\* existence check and its fs.mkdir: node runs other requests' callbacks
\* while the call waits for its own
ConcurrentMkdir ==
    /\ pc = "mkdir_cb"
    /\ FsIsDir(fs, Parent(op.real))
    /\ ~FsExists(fs, op.real)
    /\ fs' = FsPut(fs, op.real, Dir)
    /\ UNCHANGED <<pc, op, settled, threw, responded, fsFailed, removed, calls,
                 mounts, dispatchState>>

\* VFS.find: without args.recursive a filtered readDir; with it a walk by the
\* findit library, if that loads
CallFind(c) ==
    /\ c.method = "find"
    /\ CASE c.mode = "flat" -> Begin(c, "readdir_cb")
         [] c.mode = "recursive-nolib" ->
              BeginWith(c, "done",
                        Rejected("Failed to load findit node library: "), <<>>, fs)
         [] OTHER -> Begin(c, "findit")

\* find.on('end')
FindEnd ==
    /\ pc = "findit"
    /\ Callback("done", Resolved("list"), FALSE, fs)

\* find.on('stop'), after find.stop() at the result limit
FindStop ==
    /\ pc = "findit"
    /\ op.mode = "recursive-limit"
    /\ Callback("done", Resolved("list"), FALSE, fs)

\* VFS.scandir
CallScandir(c) ==
    /\ c.method = "scandir"
    /\ Begin(c, "readdir_cb")

\* readDir: the callback of fs.readdir
ReaddirCb ==
    /\ pc = "readdir_cb"
    /\ \E err \in BOOLEAN :
        /\ ~err => FsIsDir(fs, op.real)
        /\ IF err THEN Callback("done", Rejected("readdir error"), TRUE, fs)
           ELSE Callback("done", Resolved("list"), FALSE, fs)

\* VFS.fileinfo
CallFileinfo(c) ==
    /\ c.method = "fileinfo"
    /\ Begin(c, "fileinfo_exists_cb")

FileinfoExistsCb ==
    /\ pc = "fileinfo_exists_cb"
    /\ ExistsThen(FALSE, op.real, "exif_cb")

\* readExif settles: with data, with null, or with an error; the record is
\* resolved in each case
ExifCb ==
    /\ pc = "exif_cb"
    /\ Callback("done", Resolved("info"), FALSE, fs)

\* VFS.freeSpace: the diskspace library, if that loads
CallFreeSpace(c) ==
    /\ c.method = "freeSpace"
    /\ IF c.mode = "nolib"
       THEN BeginWith(c, "done",
                      Rejected("Failed to load diskspace node library: "), <<>>, fs)
       ELSE Begin(c, "diskspace_cb")

\* The callback of diskspace.check does not look at err
DiskspaceCb ==
    /\ pc = "diskspace_cb"
    /\ \E err \in BOOLEAN : Callback("done", Resolved("free"), err, fs)

\* module.exports.request with a method VFS does not have
CallUnknown(c) ==
    /\ c.method \notin VfsMethods
    /\ BeginWith(c, "done", Rejected("No such VFS method: "), <<>>, fs)

\* The call is over: no callback of it is pending any more
Finish ==
    /\ pc = "done"
    /\ pc' = "idle"
    /\ op' = Idle
    /\ settled' = <<>>
    /\ threw' = FALSE
    /\ responded' = <<>>
    /\ fsFailed' = FALSE
    /\ removed' = {}
    /\ UNCHANGED <<fs, calls, mounts, dispatchState>>

-----------------------------------------------------------------------------
(* server.js and lib/instance.js: the request pipeline *)

\* message._index of a request that is not a WebSocket message
NoIndex == "undefined"

NoRequest == [verb |-> "none", ctype |-> "", target |-> "", endpoint |-> "",
              proxied |-> FALSE, channel |-> "", index |-> NoIndex,
              path |-> <<>>]

\* instance.API: the registered API methods
ApiMethods == {"login", "logout", "settings"}

\* createHttpResponder, json(data, code): the code is not passed on, the
\* head is always written with 200
JsonResponse(error, result, code) ==
    [kind |-> "json", status |-> 200, error |-> error, result |-> result]

\* createHttpResponder, _error(message, code)
ErrorResponse(message, code) ==
    [kind |-> "raw", status |-> code, error |-> message, result |-> ""]

\* createHttpResponder, _stream and _raw as the transport calls them
DirectResponse(kind) ==
    [kind |-> kind, status |-> 200, error |-> "null", result |-> ""]

\* createWebsocketResponder, _json(message): the message is sent with
\* message._index = index
WebsocketJson(index, call, error, result) ==
    [kind |-> "message", status |-> 0, error |-> error, result |-> result,
     index |-> index, call |-> call]

\* A WebSocket responder that passes a stream or a file on as the HTTP
\* responder does
WebsocketResponderStreaming(index, call, out) ==
    IF call = "json" THEN WebsocketJson(index, call, out.error, out.result)
    ELSE out

\* createWebsocketResponder(ws, index): json and error go through _json,
\* stream and file become _json({error: 'Not available'}), raw is ws.send of
\* the data as it is
createWebsocketResponder(index, call, out) ==
    CASE call = "json"  -> WebsocketJson(index, call, out.error, out.result)
      [] call = "error" -> WebsocketJson(index, call, out.error, "undefined")
      [] call \in {"stream", "file"} ->
             WebsocketJson(index, call, "Not available", "undefined")
      [] OTHER -> [kind |-> "message", status |-> 0, error |-> "null",
                   result |-> out.result, index |-> NoIndex, call |-> call]

\* http.respond[call](...): the responder the request was created with,
\* createHttpResponder for an HTTP request, whose write is out
Respond(r, call, out) ==
    IF r.channel = "ws" THEN createWebsocketResponder(r.index, call, out)
    ELSE out

\* _rejectResponse(err)
RejectResponse(err) == JsonResponse(err, "false", 500)

\* _resolveResponse(result)
ResolveResponse(result) == JsonResponse("null", result, 200)

\* A gate that skips the session check for every API call and every login
NeedsSessionLoose(type, method) == ~(type = "api" \/ method = "login")

\* _checkPermission: the session check is skipped for the login API call only
NeedsSession(type, method) == ~(type = "api" /\ method = "login")

\* s.replace(/\/$/, '')
StripTrailingSlash(s) ==
    IF Len(s) > 0 /\ s[Len(s)] = SLASH THEN SubSeq(s, 1, Len(s) - 1) ELSE s

\* A key of instance.CONFIG.proxies: a literal path, or
\* "regexp/<source>/<flags>", the expression given by the urls it matches
LiteralRule(key) == [kind |-> "literal", key |-> key, lang |-> {}]

RegExpRule(lang) == [kind |-> "regexp", key |-> <<>>, lang |-> lang]

\* proxyCall, _getMatcher for a literal key: '/' + k.replace(/^\//, '')
getMatcher(k) == <<SLASH>> \o ReplaceLeadingSlash(k, <<>>)

\* proxyCall, isStringMatch(m, u): both without one leading and one trailing
\* slash
isStringMatch(m, u) ==
    StripTrailingSlash(ReplaceLeadingSlash(m, <<>>))
        = StripTrailingSlash(ReplaceLeadingSlash(u, <<>>))

\* The test of one key against request.url
RuleMatches(rule, url) ==
    IF rule.kind = "regexp" THEN url \in rule.lang
    ELSE isStringMatch(getMatcher(rule.key), url)

\* A proxyCall that goes on after a match: proxy.web for every matching key
proxyCallEvery(loaded, rules, url) ==
    IF loaded
    THEN SelectSeq([k \in 1..Len(rules) |-> k],
                   LAMBDA k : RuleMatches(rules[k], url))
    ELSE <<>>

\* proxyCall: Object.keys(proxies).every(...) stops at the first key that
\* matches, for which proxy.web is called; nothing is called without a proxy
\* server.  The value is the keys proxy.web was called with.
proxyCall(loaded, rules, url) ==
    LET matching == SelectSeq([k \in 1..Len(rules) |-> k],
                              LAMBDA k : RuleMatches(rules[k], url))
    IN  IF loaded /\ matching # <<>> THEN <<Head(matching)>> ELSE <<>>

\* createHttpObject, isfs: path.match(/^\/FS/)
isfs(path) == Len(path) >= 2 /\ path[1] = SLASH /\ path[2] = "FS"

\* createHttpObject, endpoint: path.replace(/^\/(FS|API)\/?/, '')
EndpointOf(path) ==
    IF Len(path) >= 2 /\ path[1] = SLASH /\ path[2] \in {"FS", "API"}
    THEN (IF Len(path) >= 3 /\ path[3] = SLASH
          THEN SubSeq(path, 4, Len(path)) ELSE SubSeq(path, 3, Len(path)))
    ELSE path

\* _staticResponse, pmatch: /^\/?packages\/(.*\/.*)\/(.*)/, an optional
\* slash, "packages/", and a rest with two slashes or more
pmatch(path) ==
    LET from == IF path # <<>> /\ path[1] = SLASH THEN 2 ELSE 1
        rest == SubSeq(path, from + 2, Len(path))
    IN  /\ Len(path) >= from + 1
        /\ path[from] = "packages"
        /\ path[from + 1] = SLASH
        /\ Len(SelectSeq(rest, LAMBDA a : a = SLASH)) >= 2

\* What a path addresses: the filesystem, an API method, a package asset
\* or another static file
TargetOf(path) ==
    CASE isfs(path)  -> "fs"
      [] pmatch(path) -> "package"
      [] Len(path) >= 2 /\ path[1] = SLASH /\ path[2] = "API" -> "api"
      [] OTHER -> "static"

\* _staticResponse, _serve: path.join(instance.DIRS.root, instance.DIST,
\* http.path), the file respond.file is called with
ServedFile(path) == Normalize(DirsRoot \o <<SLASH>> \o DistName \o <<SLASH>> \o path)

\* request(http): a GET is a filesystem read or a static file, which for a
\* package asset is gated; a POST is a filesystem call, a registered API
\* method, or nothing the server knows
Classify(r) ==
    IF r.verb = "GET"
    THEN (CASE r.target = "fs"      -> "vfs"
            [] r.target = "package" -> "package"
            [] OTHER                -> "static")
    ELSE (CASE r.target = "fs"            -> "vfs"
            [] r.endpoint \in ApiMethods -> "api"
            [] OTHER                      -> "nosuch")

ServerStep(next, newgates, newresponses) ==
    /\ hpc' = next
    /\ gates' = newgates
    /\ responses' = newresponses
    /\ UNCHANGED <<mounts, dispatchVars, transportVars, pkgVars, proxy, proxies,
                   auxVars>>

\* onRequest: a matching proxy rule takes the request; a POST waits for its
\* body if it is JSON or multipart; any other request goes to
\* _instance.request at once.  A POST of another content type starts nothing.
OnRequest(r) ==
    LET handed == proxyCall(proxy, proxies, r.path)
    IN  /\ hpc = "idle"
        /\ hreq' = [r EXCEPT !.proxied = handed # <<>>]
        /\ handlerCalls' = 0
        /\ rejection' = ""
        /\ proxyCalls' = handed
        /\ UNCHANGED session
        /\ ServerStep(CASE handed # <<>> -> "done"
                        [] r.verb = "POST" /\ r.ctype = "json" -> "body_json"
                        [] r.verb = "POST" /\ r.ctype = "multipart" -> "body_form"
                        [] r.verb = "POST" -> "done"
                        [] OTHER -> "initSession",
                      <<>>, <<>>)

\* websocketServer.on('connection'), ws.on('message'): the message is parsed
\* and goes to _instance.request as a POST of message.path, with a responder
\* made for message._index
OnMessage(m) ==
    /\ hpc = "idle"
    /\ hreq' = m
    /\ handlerCalls' = 0
    /\ rejection' = ""
    /\ proxyCalls' = <<>>
    /\ UNCHANGED session
    /\ ServerStep("initSession", <<>>, <<>>)

\* request.on('end'): JSON.parse of the body, which throws on a malformed one
BodyEnd ==
    /\ hpc = "body_json"
    /\ \E wellformed \in BOOLEAN :
        ServerStep(IF wellformed THEN "initSession" ELSE "done", gates, responses)
    /\ UNCHANGED <<session, hreq, handlerCalls, rejection, proxyCalls>>

\* The callback of form.parse
FormParsed ==
    /\ hpc = "body_form"
    /\ ServerStep("initSession", gates, responses)
    /\ UNCHANGED <<session, hreq, handlerCalls, rejection, proxyCalls>>

\* request(http), once initSession has resolved: the request is classified
\* and its first step started.  A rejection of initSession is not caught.
InitSessionSettles ==
    /\ hpc = "initSession"
    /\ \E ok \in BOOLEAN :
        CASE ~ok -> ServerStep("done", gates, responses)
          [] ok /\ Classify(hreq) = "static" ->
               ServerStep("file_exists", gates, responses)
          [] ok /\ Classify(hreq) = "nosuch" ->
               ServerStep("done", gates,
                          Append(responses,
                                 Respond(hreq, "json",
                                         JsonResponse("No such API method",
                                                      "undefined", 500))))
          [] OTHER ->
               ServerStep(IF NeedsSession(Classify(hreq), hreq.endpoint)
                          THEN "checkSession" ELSE "checkPermission",
                          gates, responses)
    /\ UNCHANGED <<session, hreq, handlerCalls, rejection, proxyCalls>>

SessionMessage == "You have no OS.js Session, please log in!"

\* auth checkSession (modules/auth/example.js): resolves when the session
\* holds a username
checkSession == session # ""

\* _checkPermission, first promise: a rejection goes to _rejectResponse and
\* the chain is never resolved
CheckSessionSettles ==
    /\ hpc = "checkSession"
    /\ IF checkSession
       THEN /\ ServerStep("checkPermission",
                          Append(gates, [gate |-> "checkSession", ok |-> TRUE]),
                          responses)
            /\ UNCHANGED rejection
       ELSE /\ ServerStep("done",
                          Append(gates, [gate |-> "checkSession", ok |-> FALSE]),
                          Append(responses,
                                 Respond(hreq, "json",
                                         RejectResponse(SessionMessage))))
            /\ rejection' = SessionMessage
    /\ UNCHANGED <<session, hreq, handlerCalls, proxyCalls>>

\* What follows a permission check that passed: the handler for vfs and api,
\* a second session check for a package asset
AfterPermission(type) == IF type = "package" THEN "pkgSession" ELSE "handler"

\* _checkPermission, second promise; the authenticator decides.  On success
\* _vfsCall calls lib.vfs request and _apiCall the API method.
CheckPermissionSettles ==
    /\ hpc = "checkPermission"
    /\ \E ok \in BOOLEAN :
        IF ok
        THEN /\ ServerStep(AfterPermission(Classify(hreq)),
                           Append(gates, [gate |-> "checkPermission", ok |-> TRUE]),
                           responses)
             /\ handlerCalls' = IF Classify(hreq) = "package" THEN handlerCalls
                                ELSE handlerCalls + 1
             /\ session' = IF Classify(hreq) = "api" /\ hreq.endpoint = "login"
                           THEN "demo" ELSE session
             /\ UNCHANGED rejection
        ELSE /\ ServerStep("done",
                           Append(gates, [gate |-> "checkPermission", ok |-> FALSE]),
                           Append(responses,
                                  Respond(hreq, "json",
                                          RejectResponse("Access denied!"))))
             /\ rejection' = "Access denied!"
             /\ UNCHANGED <<session, handlerCalls>>
    /\ UNCHANGED <<hreq, proxyCalls>>

\* _staticResponse for a package asset: checkSession again, then _serve or
\* _deny
PkgSessionSettles ==
    /\ hpc = "pkgSession"
    /\ IF checkSession
       THEN ServerStep("file_exists",
                       Append(gates, [gate |-> "checkSession", ok |-> TRUE]),
                       responses)
       ELSE ServerStep("done",
                       Append(gates, [gate |-> "checkSession", ok |-> FALSE]),
                       Append(responses,
                              Respond(hreq, "error",
                                      ErrorResponse("Access denied", 403))))
    /\ UNCHANGED <<session, hreq, handlerCalls, rejection, proxyCalls>>

\* The outcomes of a handler: it resolves, it rejects (or throws at once,
\* which the promise turns into a rejection), it answers the request itself
\* (a streamed read, an upload), or a callback of it throws and nothing more
\* happens
HandlerOutcomes == {"resolve", "reject", "respond", "silent"}

HandlerMessage == "Operation denied!"

\* The respond method a handler calls itself: read calls http.respond.stream,
\* upload http.respond.raw once it has moved http.files.upload, which only a
\* multipart request carries
RespondsItself(r) ==
    CASE r.target = "fs" /\ r.endpoint = "read" -> "stream"
      [] r.target = "fs" /\ r.endpoint = "upload" /\ r.ctype = "multipart" -> "raw"
      [] OTHER -> "none"

\* The promise around the handler settles: _resolveResponse or _rejectResponse
HandlerSettles ==
    /\ hpc = "handler"
    /\ \E o \in HandlerOutcomes :
        /\ o = "respond" => RespondsItself(hreq) # "none"
        /\ ServerStep("done", gates,
                      CASE o = "resolve" ->
                             Append(responses,
                                    Respond(hreq, "json", ResolveResponse("value")))
                        [] o = "reject" ->
                             Append(responses,
                                    Respond(hreq, "json",
                                            RejectResponse(HandlerMessage)))
                        [] o = "respond" ->
                             Append(responses,
                                    Respond(hreq, RespondsItself(hreq),
                                            DirectResponse(RespondsItself(hreq))))
                        [] OTHER -> responses)
        /\ rejection' = IF o = "reject" THEN HandlerMessage ELSE rejection
    /\ UNCHANGED <<session, hreq, handlerCalls, proxyCalls>>

\* respond.file: the callback of fs.exists streams the file or answers 404
FileExistsCb ==
    /\ hpc = "file_exists"
    /\ \E exists \in BOOLEAN :
        ServerStep("done", gates,
                   Append(responses,
                          Respond(hreq, "file",
                                  IF exists THEN DirectResponse("stream")
                                  ELSE ErrorResponse("File not found", 404))))
    /\ UNCHANGED <<session, hreq, handlerCalls, rejection, proxyCalls>>

\* The request is over; the server takes the next one
NextRequest ==
    /\ hpc = "done"
    /\ hreq' = NoRequest
    /\ handlerCalls' = 0
    /\ rejection' = ""
    /\ proxyCalls' = <<>>
    /\ UNCHANGED session
    /\ ServerStep("idle", <<>>, <<>>)

\* The inbound requests: GET and POST, the content types of a POST, the
\* targets /FS/..., /API/..., a package asset and any other static path
PackageAsset ==
    <<SLASH, "packages", SLASH, "default", SLASH, "App", SLASH, "main.js">>

\* The same file, addressed with a doubled leading slash
DoubleSlashAsset == <<SLASH>> \o PackageAsset

ProxyPath == <<SLASH, "proxy">>

\* The paths of the inbound requests: /FS/..., /API/..., a package asset and
\* other static paths
RequestPaths ==
    { <<SLASH, "FS", SLASH, e>> : e \in {"read", "upload"} }
    \cup { <<SLASH, "API", SLASH, e>> :
              e \in {"login", "logout", "settings", "nosuch"} }
    \cup { PackageAsset, DoubleSlashAsset, <<SLASH, "index.html">>, ProxyPath,
           ProxyPath \o <<SLASH>> }

\* createHttpObject: the request object of a path
RequestOf(v, c, ch, i, p) ==
    [verb |-> v, ctype |-> c, target |-> TargetOf(p),
     endpoint |-> IF TargetOf(p) \in {"fs", "api"} THEN EndpointOf(p)[1] ELSE "",
     proxied |-> FALSE, channel |-> ch, index |-> i, path |-> p]

\* The inbound HTTP requests: GET and POST, the content types of a POST
Requests ==
    { RequestOf(v, c, "http", NoIndex, p) :
        v \in {"GET", "POST"}, c \in {"", "json", "multipart", "text"},
        p \in RequestPaths }

\* The requests a client can form: a GET has no content type
WellFormed(r) == r.verb = "GET" <=> r.ctype = ""

\* message._index as the clients count it
Indexes == {"1", "2"}

\* The inbound WebSocket messages {path, args, _index, sid}
Messages == { RequestOf("POST", "", "ws", i, p) : i \in Indexes, p \in RequestPaths }

\* instance.CONFIG.proxies: nothing, one literal key, a regular expression
\* before a literal key that matches the same url, and the two the other way
ProxyConfigs ==
    LET literal == LiteralRule(<<"proxy">>)
        regexp  == RegExpRule({ p \in RequestPaths : Len(p) >= 2 /\ p[2] = "proxy" })
    IN  { <<>>, <<literal>>, <<regexp, literal>>, <<literal, regexp>> }

ServerIdle ==
    /\ session = ""
    /\ hreq = NoRequest
    /\ hpc = "idle"
    /\ gates = <<>>
    /\ handlerCalls = 0
    /\ responses = <<>>
    /\ rejection = ""
    /\ proxyCalls = <<>>
    /\ proxy = FALSE
    /\ proxies = <<>>

ServerMounts == [home |-> StringMount(<<SLASH, "srv", SLASH, "users">>)]

NextServer ==
    \/ \E r \in Requests : WellFormed(r) /\ OnRequest(r)
    \/ \E m \in Messages : OnMessage(m)
    \/ BodyEnd
    \/ FormParsed
    \/ InitSessionSettles
    \/ CheckSessionSettles
    \/ CheckPermissionSettles
    \/ PkgSessionSettles
    \/ HandlerSettles
    \/ FileExistsCb
    \/ NextRequest

-----------------------------------------------------------------------------
(* lib/packagemanager.js: install, list and cache *)

\* The number of package manager calls a behaviour holds
MaxPkgCalls == 2

\* What the package manager's actions leave alone, the filesystem apart
pkgFrame == <<mounts, registered, vfsCall, vfsOutcome, vfsRejectMsg,
              vfsForwarded, serverVars, pc, op, settled, threw, responded,
              fsFailed, removed, calls, auxVars>>

installWork == <<pkemitted, pkwrites, pkdeletes>>

listWork == <<pkindex, pkbase, pksummed, pklist>>

\* An args.paths that the call does not carry
NoPaths == <<MISSING>>

NoPkCall == [fn |-> "none", zip |-> MISSING, dest |-> MISSING,
             paths |-> NoPaths, scope |-> "", action |-> ""]

\* An object without keys
EmptyObject == [k \in {} |-> k]

PackagesIdle ==
    /\ pkcall = NoPkCall
    /\ pkpc = "idle"
    /\ pksettled = <<>>
    /\ pkresult = ""
    /\ pkindex = 0
    /\ pkbase = EmptyObject
    /\ pksummed = EmptyObject
    /\ pklist = <<>>
    /\ pkemitted = <<>>
    /\ pkwrites = EmptyObject
    /\ pkdeletes = 0
    /\ pkfailed = FALSE
    /\ pkcalls = 0

\* The contents of the files the package manager reads and writes
JsonMap(m) == [type |-> "json-map", pkgs |-> m]

JsonDists(m) == [type |-> "json-dists", dists |-> m]

JsonMeta(className) == [type |-> "json-meta", className |-> className]

Text == [type |-> "text"]

Zip(entries) == [type |-> "zip", entries |-> entries]

EntryData(name) == [type |-> "entry", name |-> name]

\* An archive member the decoder cannot decode
BadEntry == "<bad>"

\* [a, b].join('/')
JoinSlash(a, b) == a \o <<SLASH>> \o b

\* The real path of an address, as the default transport resolves it
RealOf(addr) == resolveRequestPath(mounts, SessionUser, addr).real.segs

\* lib.vfs _request(method, {path}): the dispatcher's part of the call.  A
\* throw inside the promise's executor rejects the promise.
InternalRequest(method, addr) ==
    DispatchOutcome(mounts, registered,
                    [verb |-> "POST", endpoint |-> <<method>>,
                     data |-> [NoData EXCEPT !.path = addr]])

\* The call reaches the default transport; any other outcome is a rejection
\* (the template transports reject every method)
Reaches(o) ==
    /\ o.outcome = "forwarded"
    /\ o.forwarded[1].transport = "__default__"

RejectionOf(o) == IF o.outcome = "forwarded" THEN "Not implemented" ELSE o.msg

\* lib.vfs createReadStream / createWriteStream: findTransport('read', {path})
\* and found.transport.create...Stream; when findTransport returns false or
\* finds no transport the property access throws a TypeError
StreamOpens(addr) ==
    LET found == findTransport(mounts, registered, "read",
                               [NoData EXCEPT !.path = addr])
    IN  found.result = "found" /\ found.transport = "__default__"

\* A package manager function is called with fresh resolve and reject
PkBegin(c, next, settle, msg) ==
    /\ pkpc = "idle"
    /\ pkcalls < MaxPkgCalls
    /\ pkcalls' = pkcalls + 1
    /\ pkcall' = c
    /\ pkpc' = next
    /\ pksettled' = IF settle = "" THEN <<>> ELSE <<settle>>
    /\ pkresult' = msg
    /\ pkindex' = 1
    /\ pkbase' = EmptyObject
    /\ pksummed' = EmptyObject
    /\ pklist' = <<>>
    /\ pkemitted' = <<>>
    /\ pkwrites' = EmptyObject
    /\ pkdeletes' = 0
    /\ pkfailed' = FALSE
    /\ UNCHANGED <<fs, pkgFrame>>

\* A callback of the call runs
PkStep(next, settle, msg, failed, newfs) ==
    /\ pkpc' = next
    /\ pksettled' = IF settle = "" THEN pksettled ELSE Append(pksettled, settle)
    /\ pkresult' = IF msg = "" THEN pkresult ELSE msg
    /\ pkfailed' = (pkfailed \/ failed)
    /\ fs' = newfs
    /\ UNCHANGED <<pkcall, pkcalls, pkgFrame>>

\* install
PkInstall(c) ==
    /\ c.fn = "install"
    /\ IF c.zip # MISSING /\ c.dest # MISSING /\ c.paths # NoPaths
       THEN PkBegin(c, "install_exists_cb", "", "")
       ELSE PkBegin(c, "done", "reject", "Invalid install action")

\* An install that does not look at the destination
InstallExistsCbUnchecked ==
    /\ pkpc = "install_exists_cb"
    /\ PkStep("install_mkdir_exists_cb", "", "", FALSE, fs)
    /\ UNCHANGED <<installWork, listWork>>

\* _request('exists', {path: args.dest}) settles: VFS.exists rejects when the
\* path exists, and install passes the rejection on
InstallExistsCb ==
    /\ pkpc = "install_exists_cb"
    /\ LET o == InternalRequest("exists", pkcall.dest)
           r == existsWrapper(TRUE, RealOf(pkcall.dest))
       IN  IF ~Reaches(o)
           THEN PkStep("done", "reject", RejectionOf(o), FALSE, fs)
           ELSE IF r.how = "reject"
           THEN PkStep("done", "reject", r.value, FALSE, fs)
           ELSE PkStep("install_mkdir_exists_cb", "", "", FALSE, fs)
    /\ UNCHANGED <<installWork, listWork>>

\* _onerror(e): the cleanup delete is requested; e is kept for reject
OnError(e) == PkStep("install_delete_exists_cb", "", e, TRUE, fs)

\* _request('mkdir', {path: args.dest}): the dispatcher and VFS.mkdir's
\* existence check
InstallMkdirExistsCb ==
    /\ pkpc = "install_mkdir_exists_cb"
    /\ LET o == InternalRequest("mkdir", pkcall.dest)
           r == existsWrapper(TRUE, RealOf(pkcall.dest))
       IN  IF ~Reaches(o) THEN OnError(RejectionOf(o))
           ELSE IF r.how = "reject" THEN OnError(r.value)
           ELSE PkStep("install_mkdir_cb", "", "", FALSE, fs)
    /\ UNCHANGED <<installWork, listWork>>

\* Another request's install to the same destination passed its check of
\* the destination as this call did, and its mkdir creates the directory
\* after this call's check and before this call's mkdir looks for it
ConcurrentInstall ==
    /\ pkpc = "install_mkdir_exists_cb"
    /\ FsIsDir(fs, Parent(RealOf(pkcall.dest)))
    /\ ~FsExists(fs, RealOf(pkcall.dest))
    /\ fs' = FsPut(fs, RealOf(pkcall.dest), Dir)
    /\ UNCHANGED <<pkgVars, pkgFrame>>

\* The callback of VFS.mkdir's fs.mkdir.  On an error it throws (the message
\* is built from an undefined name), so the promise of _request never
\* settles.  Otherwise mkdir resolves and install opens the zip stream.
InstallMkdirCb ==
    /\ pkpc = "install_mkdir_cb"
    /\ \E err \in BOOLEAN :
        /\ ~err => /\ FsIsDir(fs, Parent(RealOf(pkcall.dest)))
                   /\ ~FsExists(fs, RealOf(pkcall.dest))
        /\ IF err THEN PkStep("done", "", "", TRUE, fs)
           ELSE IF StreamOpens(pkcall.zip)
           THEN PkStep("install_streams", "", "", FALSE,
                       FsPut(fs, RealOf(pkcall.dest), Dir))
           ELSE PkStep("install_delete_exists_cb", "", "TypeError", TRUE,
                       FsPut(fs, RealOf(pkcall.dest), Dir))
    /\ UNCHANGED <<installWork, listWork>>

\* The archive as the decoder reads it: its members, if the file is one
ArchiveEntries ==
    LET real == RealOf(pkcall.zip)
    IN  IF FsIsFile(fs, real) /\ fs[real].data.type = "zip"
        THEN fs[real].data.entries ELSE <<BadEntry>>

\* The zip's read stream emits 'error'.  Only the decoder it is piped into
\* has an error listener, so the event is thrown and install stays unsettled.
ZipStreamError ==
    /\ pkpc = "install_streams"
    /\ ~FsIsFile(fs, RealOf(pkcall.zip))
    /\ PkStep("done", "", "", TRUE, fs)
    /\ UNCHANGED <<installWork, listWork>>

\* The decoder emits 'entry': a write stream to dest/entry.path is created
\* and the entry piped into it
ParserEntry ==
    /\ pkpc = "install_streams"
    /\ FsIsFile(fs, RealOf(pkcall.zip))
    /\ Len(pkemitted) < Len(ArchiveEntries)
    /\ LET e == ArchiveEntries[Len(pkemitted) + 1]
       IN  /\ e # BadEntry
           /\ pkemitted' = Append(pkemitted, e)
           /\ pkwrites' = [x \in DOMAIN pkwrites \cup {e} |-> 
                              IF x = e THEN "pending" ELSE pkwrites[x]]
    /\ PkStep("install_streams", "", "", FALSE, fs)
    /\ UNCHANGED <<pkdeletes, listWork>>

\* The decoder emits 'error': _onerror
ParserError ==
    /\ pkpc = "install_streams"
    /\ FsIsFile(fs, RealOf(pkcall.zip))
    /\ Len(pkemitted) < Len(ArchiveEntries)
    /\ ArchiveEntries[Len(pkemitted) + 1] = BadEntry
    /\ OnError("invalid archive")
    /\ UNCHANGED <<installWork, listWork>>

\* The decoder emits 'finish' once it has consumed the archive: resolve(true).
\* Nothing ties the event to the entries' write streams.
ParserFinish ==
    /\ pkpc = "install_streams"
    /\ FsIsFile(fs, RealOf(pkcall.zip))
    /\ Len(pkemitted) = Len(ArchiveEntries)
    /\ PkStep("done", "resolve", "", FALSE, fs)
    /\ UNCHANGED <<installWork, listWork>>

\* An entry's write stream finishes or fails; neither event has a listener
EntryWriteSettles ==
    /\ pkcall.fn = "install"
    /\ \E e \in DOMAIN pkwrites, err \in BOOLEAN :
        LET real == RealOf(JoinSlash(pkcall.dest, <<e>>))
        IN  /\ pkwrites[e] = "pending"
            /\ ~err => FsWritable(fs, real)
            /\ pkwrites' = [pkwrites EXCEPT ![e] = IF err THEN "failed"
                                                   ELSE "done"]
            /\ PkStep(pkpc, "", "", err,
                      IF err THEN fs ELSE FsPut(fs, real, File(EntryData(e))))
    /\ UNCHANGED <<pkemitted, pkdeletes, listWork>>

\* The cleanup's _request('delete', {path: args.dest}): the dispatcher and
\* VFS.delete up to its existence check.  Whether the delete resolves or
\* rejects, install rejects with the first error.
InstallDeleteExistsCb ==
    /\ pkpc = "install_delete_exists_cb"
    /\ LET o == InternalRequest("delete", pkcall.dest)
           r == existsWrapper(FALSE, RealOf(pkcall.dest))
       IN  IF ~Reaches(o) \/ DeleteRefused \/ r.how = "reject"
           THEN /\ PkStep("done", "reject", "", FALSE, fs)
                /\ pkdeletes' = pkdeletes + 1
           ELSE /\ PkStep("install_remove_cb", "", "", FALSE, fs)
                /\ UNCHANGED pkdeletes
    /\ UNCHANGED <<pkemitted, pkwrites, listWork>>

\* The callback of the cleanup's fs.remove
InstallRemoveCb ==
    /\ pkpc = "install_remove_cb"
    /\ \E err \in BOOLEAN :
        PkStep("done", "reject", "", FALSE,
               IF err THEN fs ELSE FsRemove(fs, RealOf(pkcall.dest)))
    /\ pkdeletes' = pkdeletes + 1
    /\ UNCHANGED <<pkemitted, pkwrites, listWork>>

\* Nothing of the call is pending: the next call may begin
PkFinish ==
    /\ pkpc = "done"
    /\ pkpc' = "idle"
    /\ UNCHANGED <<fs, pkcall, pksettled, pkresult, pkfailed, pkcalls,
                 installWork, listWork, pkgFrame>>

\* args.paths || []
PathsOf(c) == IF c.paths = NoPaths THEN <<>> ELSE c.paths

\* A package's metadata as a manifest holds it
Package(name, path) == [name |-> name, path |-> path, scope |-> "unset"]

\* meta[k].scope = scope, for every key
Tag(meta, scope) == [k \in DOMAIN meta |-> [meta[k] EXCEPT !.scope = scope]]

\* summed[k] = meta[k], for every key of meta
Assign(summed, meta) ==
    [k \in DOMAIN summed \cup DOMAIN meta |->
        IF k \in DOMAIN meta THEN meta[k] ELSE summed[k]]

\* A merge in which the user's entry wins
MergeMetadataUserFirst(summed, r) == Assign(summed, r)

\* list: if ( !summed[k] ) summed[k] = r[k], for every key of r
MergeMetadata(summed, r) ==
    [k \in DOMAIN summed \cup DOMAIN r |->
        IF k \in DOMAIN summed THEN summed[k] ELSE r[k]]

\* path.join(instance.DIRS.server, 'packages.json')
ServerManifest == <<"opt", "osjs", "server", "packages.json">>

\* A file that holds a manifest can be read and parsed
ReadableAs(real, type) == FsIsFile(fs, real) /\ fs[real].data.type = type

\* list
PkList(c) ==
    /\ c.fn = "list"
    /\ CASE c.scope \in {"", "system"} -> PkBegin(c, "system_meta_cb", "", "")
         [] c.scope = "user"           -> PkBegin(c, "user_meta_cb", "", "")
         [] OTHER -> PkBegin(c, "done", "reject", "Invalid scope")

\* getSystemMetadata: the callback of fs.readFile
SystemMetaCb ==
    /\ pkpc = "system_meta_cb"
    /\ IF ~ReadableAs(ServerManifest, "json-dists")
       THEN /\ PkStep("done", "reject", "ENOENT", TRUE, fs)
            /\ UNCHANGED pkbase
       ELSE /\ pkbase' = Tag(fs[ServerManifest].data.dists[DistName[1]], "system")
            /\ IF pkcall.scope = "system"
               THEN PkStep("done", "resolve", "", FALSE, fs)
               ELSE PkStep("user_meta_cb", "", "", FALSE, fs)
    /\ UNCHANGED <<pkindex, pksummed, pklist, installWork>>

\* getUserMetadata: the read of one search path's packages.json settles.  A
\* rejected read and a manifest that does not parse both go to next.
UserMetaCb ==
    /\ pkpc = "user_meta_cb"
    /\ pkindex <= Len(PathsOf(pkcall))
    /\ LET addr == JoinSlash(PathsOf(pkcall)[pkindex], <<"packages.json">>)
           o    == InternalRequest("read", addr)
       IN  IF Reaches(o) /\ ReadableAs(RealOf(addr), "json-map")
           THEN pksummed' = Assign(pksummed,
                                   Tag(fs[RealOf(addr)].data.pkgs, "user"))
           ELSE UNCHANGED pksummed
    /\ pkindex' = pkindex + 1
    /\ PkStep("user_meta_cb", "", "", FALSE, fs)
    /\ UNCHANGED <<pkbase, pklist, installWork>>

\* getUserMetadata's iteration ends: resolve(summed), which list with no
\* scope merges into the system metadata before it resolves
UserMetaDone ==
    /\ pkpc = "user_meta_cb"
    /\ pkindex > Len(PathsOf(pkcall))
    /\ pkbase' = IF pkcall.scope = "user" THEN pkbase
                 ELSE MergeMetadata(pkbase, pksummed)
    /\ PkStep("done", "resolve", "", FALSE, fs)
    /\ UNCHANGED <<pkindex, pksummed, pklist, installWork>>

\* The value list resolved with
ListResult == IF pkcall.scope = "user" THEN pksummed ELSE pkbase

\* cache
PkCache(c) ==
    /\ c.fn = "cache"
    /\ IF c.action = "generate" /\ c.scope = "user"
       THEN PkBegin(c, "gen_scandir_cb", "", "")
       ELSE PkBegin(c, "done", "reject", "Unavailable")

\* The names a directory listing may hold, in the order readdir gives them
NameOrder == <<".trash", "AppB", "AppD", "AppE", "README", "packages.json">>

\* Names that begin with a dot
DotNames == {".trash"}

\* readDir: the entries of a directory with their types
DirList(real) ==
    LET present(n) == FsExists(fs, real \o <<n>>)
        names      == SelectSeq(NameOrder, present)
    IN  [i \in 1..Len(names) |->
            [filename |-> names[i],
             type     |-> IF FsIsDir(fs, real \o <<names[i]>>) THEN "dir"
                          ELSE "file"]]

\* generateUserMetadata: the scandir of one search path settles; a rejection
\* goes to next
GenScandirCb ==
    /\ pkpc = "gen_scandir_cb"
    /\ pkindex <= Len(PathsOf(pkcall))
    /\ LET root == PathsOf(pkcall)[pkindex]
           o    == InternalRequest("scandir", root)
       IN  IF Reaches(o) /\ FsIsDir(fs, RealOf(root))
           THEN /\ pklist' = DirList(RealOf(root))
                /\ PkStep("gen_read_cb", "", "", FALSE, fs)
                /\ UNCHANGED pkindex
           ELSE /\ pkindex' = pkindex + 1
                /\ PkStep("gen_scandir_cb", "", "", TRUE, fs)
                /\ UNCHANGED pklist
    /\ UNCHANGED <<pkbase, pksummed, installWork>>

\* The next entry of the listing: the metadata.json of a directory whose name
\* has no leading dot is read, and what parses is put into summed
GenReadCb ==
    /\ pkpc = "gen_read_cb"
    /\ pklist # <<>>
    /\ LET root  == PathsOf(pkcall)[pkindex]
           liter == Head(pklist)
           dir   == JoinSlash(root, <<liter.filename>>)
           addr  == JoinSlash(dir, <<"metadata.json">>)
           o     == InternalRequest("read", addr)
       IN  IF /\ liter.type = "dir"
              /\ liter.filename \notin DotNames
              /\ Reaches(o)
              /\ ReadableAs(RealOf(addr), "json-meta")
           THEN LET cls == fs[RealOf(addr)].data.className
                IN  pksummed' = Assign(pksummed,
                                       [k \in {cls} |-> Package(cls, dir)])
           ELSE UNCHANGED pksummed
    /\ pklist' = Tail(pklist)
    /\ PkStep("gen_read_cb", "", "", FALSE, fs)
    /\ UNCHANGED <<pkindex, pkbase, installWork>>

\* The listing is exhausted: summed is written to the search path's
\* packages.json, and the iteration goes on whether the write succeeds or not
GenWriteCb ==
    /\ pkpc = "gen_read_cb"
    /\ pklist = <<>>
    /\ LET addr == JoinSlash(PathsOf(pkcall)[pkindex], <<"packages.json">>)
           o    == InternalRequest("write", addr)
       IN  \E err \in BOOLEAN :
            /\ ~err => Reaches(o) /\ FsWritable(fs, RealOf(addr))
            /\ PkStep("gen_scandir_cb", "", "", err,
                      IF err THEN fs
                      ELSE FsPut(fs, RealOf(addr), File(JsonMap(pksummed))))
    /\ pkindex' = pkindex + 1
    /\ UNCHANGED <<pkbase, pksummed, pklist, installWork>>

\* generateUserMetadata's iteration ends: resolve(true)
GenDone ==
    /\ pkpc = "gen_scandir_cb"
    /\ pkindex > Len(PathsOf(pkcall))
    /\ PkStep("done", "resolve", "", FALSE, fs)
    /\ UNCHANGED <<listWork, installWork>>

-----------------------------------------------------------------------------
(* modules/vfs/filesystem.js: resolveRequestPath on its own *)

NoResolution ==
    [called |-> FALSE, username |-> <<>>, query |-> <<>>,
     result |-> [query |-> <<>>, protocol |-> <<>>, path |-> <<>>,
                 real |-> NullPath]]

\* One call of resolveRequestPath(instance, http, query), http.session
\* holding the username
Resolve(username, query) ==
    /\ resolution' = [called |-> TRUE, username |-> username, query |-> query,
                      result |-> resolveRequestPath(mounts, username, query)]
    /\ UNCHANGED <<dispatchVars, transportVars, serverVars, pkgVars, listing,
                   handlerVars, connVars, apiVars, settingsVars, bootVars,
                   gatewayVars>>

-----------------------------------------------------------------------------
(* modules/vfs/filesystem.js: find without recursion, on the names of a
   directory; a name and a query are sequences of characters *)

DOT == <<".">>

DOTDOT == <<".", ".">>

\* String.prototype.toLowerCase on one character
LowerOf(ch) ==
    CASE ch = "A" -> "a"
      [] ch = "B" -> "b"
      [] ch = "C" -> "c"
      [] OTHER    -> ch

toLowerCase(str) == [i \in 1..Len(str) |-> LowerOf(str[i])]

\* str.indexOf(q) !== -1
Includes(str, q) ==
    \E i \in 0..(Len(str) - Len(q)) : SubSeq(str, i + 1, i + Len(q)) = q

\* A find that compares with the query as it was given
FindQueryAsGiven(q) == IF q = MISSING THEN <<>> ELSE q

\* find: (qargs.query || '').toLowerCase()
FindQuery(q) == toLowerCase(IF q = MISSING THEN <<>> ELSE q)

\* find: the filter it gives readDir
FindFilter(iter, query) ==
    IF iter \notin {DOT, DOTDOT}
    THEN Includes(toLowerCase(iter), query)
    ELSE FALSE

\* find with recursive unset, the callback of fs.readdir without an error:
\* list.filter(filter).map(createFileIter), of which the filenames are kept
Find(list, q) ==
    /\ listing' = [called |-> TRUE, list |-> list, query |-> q,
                   result |-> SelectSeq(list,
                                        LAMBDA iter : FindFilter(iter, FindQuery(q)))]
    /\ UNCHANGED <<dispatchVars, transportVars, serverVars, pkgVars, resolution,
                   handlerVars, connVars, apiVars, settingsVars, bootVars,
                   gatewayVars>>

NoListing == [called |-> FALSE, list |-> <<>>, query |-> <<>>, result |-> <<>>]

-----------------------------------------------------------------------------
(* The client's core handler: the Handler singleton *)

\* The number of Handler objects a behaviour constructs
MaxHandlers == 4

\* A value of _handlerInstance that is no object: undefined at load, null
\* after a destroy
NoInstance(kind) == [kind |-> kind, id |-> 0]

\* The Handler object constructed as the id-th
Instance(id) == [kind |-> "object", id |-> id]

clientFrame == <<dispatchVars, transportVars, serverVars, pkgVars, resolution,
                 listing, connVars, apiVars, settingsVars, bootVars, gatewayVars>>

\* new Handler(): throws when _handlerInstance is set, else builds the object
\* and registers it as _handlerInstance
NewHandler ==
    /\ Len(handlers) < MaxHandlers
    /\ IF handlerInstance.kind = "object"
       THEN /\ constructed' = "threw"
            /\ UNCHANGED <<handlers, handlerInstance>>
       ELSE /\ constructed' = "ok"
            /\ handlers' = Append(handlers, "live")
            /\ handlerInstance' = Instance(Len(handlers) + 1)
    /\ UNCHANGED <<got, clientFrame>>

\* Handler.prototype.destroy, called on any Handler object the client holds:
\* its authenticator, storage and connection are destroyed and
\* _handlerInstance is set to null
Destroy(id) ==
    /\ id \in 1..Len(handlers)
    /\ handlers' = [handlers EXCEPT ![id] = "destroyed"]
    /\ handlerInstance' = NoInstance("null")
    /\ constructed' = "none"
    /\ UNCHANGED <<got, clientFrame>>

\* OSjs.Core.getHandler()
GetHandler ==
    /\ got' = handlerInstance
    /\ constructed' = "none"
    /\ UNCHANGED <<handlers, handlerInstance, clientFrame>>

ClientIdle ==
    /\ handlers = <<>>
    /\ handlerInstance = NoInstance("undefined")
    /\ constructed = "none"
    /\ got = NoInstance("undefined")

-----------------------------------------------------------------------------
(* client connection.js: calls over the WebSocket *)

\* The number of callWS calls a behaviour makes
MaxWsCalls == 3

\* The number of messages that arrive on the socket
MaxArrivals == 4

connFrame == <<dispatchVars, transportVars, serverVars, pkgVars, resolution,
               listing, handlerVars, apiVars, settingsVars, bootVars, gatewayVars>>

\* An onmessage that leaves the callback in the queue
AfterDeliveryKept(queue, idx) == queue

\* ws.onmessage, after the callback returned: delete self.wsqueue[idx]
AfterDelivery(queue, idx) == [i \in DOMAIN queue \ {idx} |-> queue[i]]

\* Connection.prototype.callWS: idx = this.index++; the message is sent and
\* onsuccess stored in wsqueue[idx]; when ws.send throws, onerror is called
\* and nothing is stored
CallWS(onsuccess, sends) ==
    /\ wsindex < MaxWsCalls
    /\ wsindex' = wsindex + 1
    /\ wscalls' = Append(wscalls, [idx |-> wsindex, callback |-> onsuccess,
                                   sent |-> sends])
    /\ IF sends
       THEN /\ wsqueue' = [i \in DOMAIN wsqueue \cup {wsindex} |->
                              IF i = wsindex THEN onsuccess ELSE wsqueue[i]]
            /\ UNCHANGED wsinvoked
       ELSE /\ wsinvoked' = Append(wsinvoked,
                                   [callback |-> "onerror", idx |-> wsindex])
            /\ UNCHANGED wsqueue
    /\ UNCHANGED <<wsarrived, connFrame>>

\* ws.onmessage for a message with _index idx: the callback stored for idx,
\* if there is one, is called with the data and removed
WsOnMessage(idx) ==
    /\ wsarrived < MaxArrivals
    /\ wsarrived' = wsarrived + 1
    /\ IF idx \in DOMAIN wsqueue
       THEN /\ wsinvoked' = Append(wsinvoked,
                                   [callback |-> wsqueue[idx], idx |-> idx])
            /\ wsqueue' = AfterDelivery(wsqueue, idx)
       ELSE UNCHANGED <<wsinvoked, wsqueue>>
    /\ UNCHANGED <<wsindex, wscalls, connFrame>>

ConnectionIdle ==
    /\ wsindex = 0
    /\ wsqueue = <<>>
    /\ wscalls = <<>>
    /\ wsinvoked = <<>>
    /\ wsarrived = 0

-----------------------------------------------------------------------------
(* The client's core handler: callAPI, the network events, saveSettings *)

\* The number of callAPI calls a behaviour makes
MaxApiCalls == 3

\* The number of saveSettings calls a behaviour makes
MaxSaves == 3

apiFrame == <<dispatchVars, transportVars, serverVars, pkgVars, resolution,
              listing, handlerVars, connVars, settingsVars, bootVars,
              gatewayVars>>

settingsFrame == <<dispatchVars, transportVars, serverVars, pkgVars, resolution,
                   listing, handlerVars, connVars, apiVars, bootVars,
                   gatewayVars>>

\* A callAPI that does not look at the offline flag
callAPIUnguarded(isOffline, type, method) ==
    IF type = "standalone"
    THEN [requests |-> 0, errors |-> 1, vfs |-> FALSE]
    ELSE [requests |-> 1, errors |-> 0, vfs |-> method = "FS"]

\* Handler.prototype.callAPI: off-line, and in a standalone client, cbError is
\* called and nothing is requested; else the call goes to connection.request
\* through _callVFS for an FS method and _callAPI for any other
callAPI(isOffline, type, method) ==
    CASE isOffline -> [requests |-> 0, errors |-> 1, vfs |-> FALSE]
      [] type = "standalone" -> [requests |-> 0, errors |-> 1, vfs |-> FALSE]
      [] OTHER -> [requests |-> 1, errors |-> 0, vfs |-> method = "FS"]

CallAPI(method) ==
    /\ Len(apicalls) < MaxApiCalls
    /\ apicalls' = Append(apicalls,
                          [method |-> method, after |-> netEvent,
                           did |-> callAPI(offline, connType, method)])
    /\ UNCHANGED <<offline, netEvent, connType, apiFrame>>

\* Handler.prototype.onOffline, bound to the window's 'offline' event
OnOffline ==
    /\ offline' = TRUE
    /\ netEvent' = "offline"
    /\ UNCHANGED <<connType, apicalls, apiFrame>>

\* Handler.prototype.onOnline, bound to the window's 'online' event
OnOnline ==
    /\ offline' = FALSE
    /\ netEvent' = "online"
    /\ UNCHANGED <<connType, apicalls, apiFrame>>

\* Handler.prototype.saveSettings: a timer in _saveTimeout is cleared; a new
\* timer is set, and what setTimeout returns is not kept
SaveSettings ==
    /\ timerCount < MaxSaves
    /\ timerCount' = timerCount + 1
    /\ timers' = (IF saveTimeout = 0 THEN timers ELSE timers \ {saveTimeout})
                  \cup {timerCount + 1}
    /\ saveTimeout' = 0
    /\ bursts' = IF timers = {} THEN bursts + 1 ELSE bursts
    /\ UNCHANGED <<storageCalls, settingsFrame>>

\* The callback of the timer, 250 ms after it was set: storage.settings
TimerFires(id) ==
    /\ id \in timers
    /\ timers' = timers \ {id}
    /\ storageCalls' = storageCalls + 1
    /\ UNCHANGED <<saveTimeout, timerCount, bursts, settingsFrame>>

HandlerCallsIdle ==
    /\ offline = FALSE
    /\ netEvent = "none"
    /\ connType = "http"
    /\ apicalls = <<>>
    /\ saveTimeout = 0
    /\ timers = {}
    /\ timerCount = 0
    /\ storageCalls = 0
    /\ bursts = 0

-----------------------------------------------------------------------------
(* The server's start-up: instance.js init and server.js start *)

\* The most files a module directory, and packages the manifest, holds
MaxModules == 2

bootFrame == <<dispatchVars, transportVars, serverVars, pkgVars, resolution,
               listing, handlerVars, connVars, apiVars, settingsVars,
               gatewayVars>>

NoFault == [step |-> "none", file |-> 0]

\* A module of a step, as the start-up records it once it is loaded
Module(step, i) == [step |-> step, file |-> i]

\* What a step has loaded when it ends: a step that fails at file k (0: before
\* its first file) has loaded the files before k
LoadedBy(step, n) ==
    LET upto == IF bootenv.fault.step = step THEN bootenv.fault.file - 1 ELSE n
    IN  [i \in 1..(IF upto < 0 THEN 0 ELSE upto) |-> Module(step, i)]

Fails(step) == bootenv.fault.step = step

\* A chain in which the server listens once it is created
ThenListening(step) ==
    CASE step = "loadConfiguration" -> "loadAPI"
      [] step = "loadAPI" -> "loadAuth"
      [] step = "loadAuth" -> "loadStorage"
      [] step = "loadStorage" -> "loadVFS"
      [] step = "loadVFS" -> "startup"
      [] step = "startup" -> "start"
      [] step = "registerPackages" -> "start"
      [] OTHER -> "done"

\* init: loadConfiguration(opts).then(loadAPI).then(loadAuth)
\* .then(loadStorage).then(loadVFS).then(startup), and in startup
\* start(instance).then(registerPackages(result.httpServer).then(result.start))
Then(step) ==
    CASE step = "loadConfiguration" -> "loadAPI"
      [] step = "loadAPI" -> "loadAuth"
      [] step = "loadAuth" -> "loadStorage"
      [] step = "loadStorage" -> "loadVFS"
      [] step = "loadVFS" -> "startup"
      [] step = "startup" -> "registerPackages"
      [] step = "registerPackages" -> "start"
      [] OTHER -> "done"

\* A step of the chain: it loads its n modules in order; when it rejects or
\* throws, nothing after it in the chain runs
BootStep(step, n) ==
    /\ bootpc = step
    /\ bootloaded' = bootloaded \o LoadedBy(step, n)
    /\ bootpc' = IF Fails(step) THEN "failed" ELSE Then(step)
    /\ UNCHANGED <<listening, bootenv, bootFrame>>

\* loadConfiguration: settings.json is read and parsed into instance.CONFIG
LoadConfiguration == BootStep("loadConfiguration", 1)

\* loadAPI: every file of modules/api is imported into instance.API
LoadAPI == BootStep("loadAPI", bootenv.api)

\* loadAuth: the configured authenticator is required and registered
LoadAuth == BootStep("loadAuth", 1)

\* loadStorage: the configured storage is required and registered
LoadStorage == BootStep("loadStorage", 1)

\* loadVFS: every file of modules/vfs is pushed onto instance.VFS
LoadVFS == BootStep("loadVFS", bootenv.vfs)

\* startup: server.js creates the proxy, HTTP and WebSocket servers
Startup == BootStep("startup", 1)

\* registerPackages: packages.json is read, each package's api.js registered
RegisterPackages == BootStep("registerPackages", bootenv.packages)

\* result.start: httpServer.listen(instance.PORT)
Start ==
    /\ bootpc = "start"
    /\ listening' = TRUE
    /\ bootpc' = "done"
    /\ UNCHANGED <<bootloaded, bootenv, bootFrame>>

BootIdle ==
    /\ bootpc = "done"
    /\ bootloaded = <<>>
    /\ listening = FALSE
    /\ bootenv = [api |-> 0, vfs |-> 0, packages |-> 0, fault |-> NoFault]

-----------------------------------------------------------------------------
(* lib/vfs.js and instance.js: _vfsCall, _request and the stream passthrough *)

gatewayFrame == <<transportVars, serverVars, pkgVars, resolution, listing,
                  handlerVars, connVars, apiVars, settingsVars, bootVars>>

\* createHttpObject: the http object holds the request object, whose method
\* is the verb, and the endpoint, data and responder of the request
HttpObject(call) ==
    [request |-> [method |-> call.verb], endpoint |-> call.endpoint,
     data |-> call.data, respond |-> "responder"]

NoHttp == HttpObject(NoCall)

\* The call lib.vfs request reads from an http object
CallOf(http) ==
    [verb |-> http.request.method, endpoint |-> http.endpoint, data |-> http.data]

\* _request: newHttp = Object.assign({}, http) is a new object that holds the
\* same request object as http; endpoint, data and respond are set on
\* newHttp, the method on the request object the two share
InternalHttp(http, method, args) ==
    LET newHttp == [http EXCEPT !.endpoint = <<method>>, !.data = args,
                                !.request.method = "POST",
                                !.respond = "_nullResponder"]
    IN  [newHttp |-> newHttp,
         http    |-> [http EXCEPT !.request = newHttp.request]]

NoPermission == [method |-> <<>>, executed |-> "none"]

NoStream == [path |-> <<>>, outcome |-> "none", transport |-> "none"]

\* The dispatch of one call, as VfsRequest does it
Dispatched(call) ==
    LET o == DispatchOutcome(mounts, registered, call)
    IN  /\ vfsCall' = call
        /\ vfsOutcome' = o.outcome
        /\ vfsRejectMsg' = o.msg
        /\ vfsForwarded' = o.forwarded
        /\ UNCHANGED <<mounts, registered, gatewayFrame>>

\* request(http), _vfsCall: checkPermission is asked about
\* http.endpoint.replace(/(^get\/)?/, ''), and once it resolves the http
\* object goes to lib.vfs request
VfsCall ==
    /\ permitted' = [method |-> StripGet(caller.endpoint),
                     executed |-> RequestFn(CallOf(caller))]
    /\ Dispatched(CallOf(caller))
    /\ UNCHANGED <<caller, wstream>>

\* module.exports._request(instance, http, method, args)
VfsInternalRequest(method, args) ==
    LET r == InternalHttp(caller, method, args)
    IN  /\ caller' = r.http
        /\ Dispatched(CallOf(r.newHttp))
        /\ UNCHANGED <<permitted, wstream>>

\* module.exports.createWriteStream: findTransport as for a read of the
\* path, then found.transport.createWriteStream; found is false for a mount
\* that denies, and found.transport undefined without a module, and then
\* the call throws
createWriteStream(m, reg, path) ==
    LET found == findTransport(m, reg, "read", [NoData EXCEPT !.path = path])
    IN  IF found.result = "found" /\ found.transport # "none"
        THEN [path |-> path, outcome |-> "stream", transport |-> found.transport]
        ELSE [path |-> path, outcome |-> "threw", transport |-> "none"]

CreateWriteStream(path) ==
    /\ wstream' = createWriteStream(mounts, registered, path)
    /\ UNCHANGED <<caller, permitted, dispatchVars, gatewayFrame>>

GatewayIdle ==
    /\ caller = NoHttp
    /\ permitted = NoPermission
    /\ wstream = NoStream

AuxIdle ==
    /\ resolution = NoResolution
    /\ listing = NoListing
    /\ ClientIdle
    /\ ConnectionIdle
    /\ HandlerCallsIdle
    /\ BootIdle
    /\ GatewayIdle

-----------------------------------------------------------------------------
(* The transport's inputs *)

AliceRoot == <<"srv", "users", "alice">>

\* The filesystem at startup
InitialFs ==
    LET dirs  == {<<"srv">>, <<"srv", "users">>, AliceRoot,
                  AliceRoot \o <<"docs">>, <<"srv", "users", "bob">>, <<"tmp">>}
        files == {AliceRoot \o <<"docs", "a.txt">>,
                  <<"srv", "users", "bob", "b.txt">>}
    IN  [q \in dirs \cup files |-> IF q \in dirs THEN Dir ELSE File(<<"a">>)]

HomeTemplate == <<SLASH, "srv", SLASH, "users", SLASH, "%USERNAME%">>

DocFile == <<"home", SEP, "docs", SLASH, "a.txt">>

DocsDir == <<"home", SEP, SLASH, "docs">>

NewPath == <<"home", SEP, "new">>

RootEmpty == <<"home", SEP>>

RootDot == <<"home", SEP, ".">>

RootSlash == <<"home", SEP, SLASH, SLASH>>

Escaping == <<"home", SEP, "..", SLASH, "bob">>

Call(method, path, dest, mode) ==
    [method |-> method, path |-> path, dest |-> dest, mode |-> mode]

\* The calls of the transport's request method
TransportCalls ==
    {Call("exists", a, MISSING, "") : a \in {DocFile, NewPath}}
    \cup {Call("read", a, MISSING, m) :
            a \in {DocFile, NewPath}, m \in {"stream", "buffer", "base64"}}
    \cup {Call("upload", a, MISSING, m) :
            a \in {DocsDir, NewPath}, m \in {"overwrite", "keep"}}
    \cup {Call("write", a, MISSING, "raw") : a \in {DocFile, NewPath}}
    \cup {Call("delete", a, MISSING, "") :
            a \in {DocFile, DocsDir, NewPath, RootEmpty, RootDot, RootSlash,
                   Escaping}}
    \cup {Call(m, a[1], a[2], "") :
            m \in {"copy", "move"},
            a \in {<<DocFile, NewPath>>, <<NewPath, DocFile>>,
                   <<DocsDir, NewPath>>}}
    \cup {Call("mkdir", a, MISSING, "") : a \in {DocsDir, NewPath}}
    \cup {Call("find", a, MISSING, m) :
            a \in {DocsDir, DocFile},
            m \in {"flat", "recursive", "recursive-limit", "recursive-nolib"}}
    \cup {Call("fileinfo", a, MISSING, "") : a \in {DocFile, NewPath}}
    \cup {Call("scandir", a, MISSING, "") : a \in {DocsDir, NewPath}}
    \cup {Call("freeSpace", DocsDir, MISSING, m) : m \in {"", "nolib"}}
    \cup {Call("chmod", DocFile, MISSING, "")}

\* The transport reads only a mount's destination
TransportMountConfigs ==
    { [home |-> StringMount(HomeTemplate)],
      [home |-> ObjectMount(<<SLASH, "srv", SLASH, "users", SLASH, "%UID%">>,
                            "__default__", "true", "true")] }

TransportIdle ==
    /\ fs = InitialFs
    /\ pc = "idle"
    /\ op = Idle
    /\ settled = <<>>
    /\ threw = FALSE
    /\ responded = <<>>
    /\ fsFailed = FALSE
    /\ removed = {}
    /\ calls = 0

DispatchIdle ==
    /\ registered = {"__default__"}
    /\ vfsCall = NoCall
    /\ vfsOutcome = "none"
    /\ vfsRejectMsg = ""
    /\ vfsForwarded = <<>>

InitTransport ==
    /\ mounts \in TransportMountConfigs
    /\ TransportIdle
    /\ DispatchIdle
    /\ ServerIdle
    /\ PackagesIdle
    /\ AuxIdle

NextTransport ==
    \/ \E c \in TransportCalls :
          \/ CallExists(c)
          \/ CallRead(c)
          \/ CallUpload(c)
          \/ CallWrite(c)
          \/ CallDelete(c)
          \/ CallCopy(c)
          \/ CallMove(c)
          \/ CallMkdir(c)
          \/ CallFind(c)
          \/ CallScandir(c)
          \/ CallFileinfo(c)
          \/ CallFreeSpace(c)
          \/ CallUnknown(c)
    \/ ExistsCb
    \/ ReadFileCb
    \/ UploadSourceCb
    \/ UploadDestCb
    \/ UploadStreamError
    \/ UploadStreamDone
    \/ UploadUnlinkCb
    \/ WriteFileCb
    \/ DeleteExistsCb
    \/ RemoveCb
    \/ CopySrcCb
    \/ CopyDestCb
    \/ CopyAccessCb
    \/ CopyCb
    \/ MoveSrcCb
    \/ MoveDestCb
    \/ RenameCb
    \/ MkdirExistsCb
    \/ MkdirCb
    \/ ConcurrentMkdir
    \/ FindEnd
    \/ FindStop
    \/ ReaddirCb
    \/ FileinfoExistsCb
    \/ ExifCb
    \/ DiskspaceCb
    \/ Finish

SpecTransport == InitTransport /\ [][NextTransport]_vars

-----------------------------------------------------------------------------
(* Uploads of two requests to one destination *)

\* Uploads of a.txt into a directory that holds the name and into one that
\* does not
UploadCalls ==
    {Call("upload", a, MISSING, m) :
        a \in {DocsDir, RootEmpty}, m \in {"overwrite", "keep"}}

NextUploads ==
    \/ \E c \in UploadCalls : CallUpload(c)
    \/ UploadSourceCb
    \/ UploadDestCb
    \/ ConcurrentUpload
    \/ UploadStreamError
    \/ UploadStreamDone
    \/ UploadUnlinkCb
    \/ Finish

SpecUploads == InitTransport /\ [][NextUploads]_vars

\* C34: two upload requests without overwrite=true that target the same
\* destination, interleaved in any way, never both succeed: the file written
\* by the first is never replaced by the second.
C34_SecondUploadKeepsFirst ==
    [][ (/\ op.method = "upload"
         /\ op.mode = "keep"
         /\ FsIsFile(fs, UploadDest)
         /\ fs[UploadDest].data = OtherUploadData)
        => (FsExists(fs', UploadDest) /\ fs'[UploadDest] = fs[UploadDest]) ]_vars

-----------------------------------------------------------------------------
(* The dispatcher's inputs *)

HomeAddress == <<"home", SEP, "docs", SLASH, "a.txt">>

SharedAddress == <<"shared", SEP, SLASH, "b.txt">>

BareAddress == <<"a.txt">>

DispatchAddresses == {HomeAddress, SharedAddress, BareAddress, MISSING}

Tristate == {"unset", "true", "false"}

SharedDestination == <<SLASH, "srv", SLASH, "shared">>

\* The configurations of vfs.mounts: home is a template string, shared an
\* object with every combination of its optional fields
DispatchMountConfigs ==
    { [home   |-> StringMount(HomeTemplate),
       shared |-> ObjectMount(SharedDestination, t, e, r)] :
      t \in {"unset", "__default__", "EXAMPLE", "s3"},
      e \in Tristate, r \in Tristate }

\* The transports loadVFS finds in modules/vfs
RegisteredSets == {{"__default__"}, {"__default__", "EXAMPLE"}}

\* The calls of lib.vfs request: a POST of each method with its address
\* fields, and a GET of an address with or without the get/ prefix
DispatchCalls ==
    { [verb |-> "POST", endpoint |-> <<m>>,
       data |-> [NoData EXCEPT !.path = a]] :
      m \in VfsMethods \ {"copy", "move", "freeSpace"}, a \in DispatchAddresses }
    \cup
    { [verb |-> "POST", endpoint |-> <<m>>,
       data |-> [NoData EXCEPT !.src = a, !.dest = b]] :
      m \in {"copy", "move"}, a \in DispatchAddresses, b \in DispatchAddresses }
    \cup
    { [verb |-> "POST", endpoint |-> <<"freeSpace">>,
       data |-> [NoData EXCEPT !.root = a]] : a \in DispatchAddresses }
    \cup
    { [verb |-> "GET", endpoint |-> pre \o a, data |-> NoData] :
      pre \in {<<>>, <<"get", SLASH>>}, a \in DispatchAddresses \ {MISSING} }

InitDispatch ==
    /\ mounts \in DispatchMountConfigs
    /\ registered \in RegisteredSets
    /\ vfsCall = NoCall
    /\ vfsOutcome = "none"
    /\ vfsRejectMsg = ""
    /\ vfsForwarded = <<>>
    /\ TransportIdle
    /\ ServerIdle
    /\ PackagesIdle
    /\ AuxIdle

NextDispatch == \E call \in DispatchCalls : VfsRequest(call)

SpecDispatch == InitDispatch /\ [][NextDispatch]_vars

-----------------------------------------------------------------------------
(* Claims about the dispatcher *)

\* The address is protocol://..., with protocol the name of a mount
NamesMount(addr, p) ==
    /\ Len(addr) >= 2
    /\ addr[1] = p
    /\ addr[2] = SEP
    /\ \A i \in 3..Len(addr) : addr[i] # SEP
    /\ p \in DOMAIN mounts

\* The address argument of the call: path, src for copy and move, root for
\* freeSpace
CallAddress ==
    LET data == RequestData(vfsCall)
        fn   == RequestFn(vfsCall)
    IN  CASE fn \in {"copy", "move"} -> data.src
          [] fn = "freeSpace"        -> data.root
          [] OTHER                   -> data.path

CallMade == vfsCall.verb # "none"

DeniedBeforeTransport ==
    /\ vfsOutcome = "rejected"
    /\ vfsRejectMsg = "Operation denied!"
    /\ vfsForwarded = <<>>

\* C1: a request of a writing method (upload, write, delete, copy, move,
\* mkdir) whose address (path, or src for copy/move) names an object mount
\* with ro:true is rejected with 'Operation denied' and no transport's
\* request method is invoked.
C1_ReadOnlyMountDenied ==
    \A p \in DOMAIN mounts :
        ( /\ CallMade
          /\ RequestFn(vfsCall) \in
                 {"upload", "write", "delete", "copy", "move", "mkdir"}
          /\ NamesMount(CallAddress, p)
          /\ mounts[p].kind = "object"
          /\ mounts[p].ro = "true" )
        => DeniedBeforeTransport

\* A write to a read-only mount that is not disabled has been handled
C1_Witness ==
    /\ CallMade
    /\ vfsCall.endpoint = <<"write">>
    /\ NamesMount(CallAddress, "shared")
    /\ mounts["shared"].ro = "true"
    /\ mounts["shared"].enabled = "true"
    /\ mounts["shared"].transport = "EXAMPLE"
    /\ "EXAMPLE" \in registered
    /\ DeniedBeforeTransport

\* C2: a copy or move whose dest address names a mount that is ro:true or
\* enabled:false is rejected with 'Operation denied' before reaching the
\* transport, even when the src mount is writable and enabled.
C2_DestMountDenied ==
    \A p \in DOMAIN mounts :
        ( /\ CallMade
          /\ RequestFn(vfsCall) \in {"copy", "move"}
          /\ \E q \in DOMAIN mounts : NamesMount(RequestData(vfsCall).src, q)
          /\ NamesMount(RequestData(vfsCall).dest, p)
          /\ mounts[p].kind = "object"
          /\ (mounts[p].ro = "true" \/ mounts[p].enabled = "false") )
        => DeniedBeforeTransport

\* C3: a request of any method whose address names a mount with
\* enabled:false is rejected with 'Operation denied' and no transport is
\* invoked.
C3_DisabledMountDenied ==
    \A p \in DOMAIN mounts :
        ( /\ CallMade
          /\ NamesMount(CallAddress, p)
          /\ mounts[p].kind = "object"
          /\ mounts[p].enabled = "false" )
        => DeniedBeforeTransport

\* A read-only method on a disabled, writable mount has been handled
C3_Witness ==
    /\ CallMade
    /\ RequestFn(vfsCall) = "scandir"
    /\ NamesMount(CallAddress, "shared")
    /\ mounts["shared"].enabled = "false"
    /\ mounts["shared"].ro = "false"
    /\ DeniedBeforeTransport

\* The transport a mount asks for, read off the configuration
WantedTransport(p) ==
    IF mounts[p].kind = "object" /\ mounts[p].transport \in {"EXAMPLE", "s3"}
    THEN mounts[p].transport ELSE "__default__"

\* The call passes the mount's enabled and ro flags
PassesMountFlags(p) ==
    mounts[p].kind = "object" =>
        /\ mounts[p].enabled # "false"
        /\ ~(mounts[p].ro = "true"
              /\ RequestFn(vfsCall) \in
                    {"upload", "write", "delete", "copy", "move", "mkdir"})

\* C15: if the mount's named transport is not in the registered transport
\* list, the dispatcher rejects with 'Cannot find VFS module' and invokes no
\* transport; otherwise it forwards to that transport's request method
\* exactly once with the envelope {query, method, data}.
C15_UnregisteredTransportRejected ==
    \A p \in DOMAIN mounts :
        (CallMade /\ NamesMount(CallAddress, p) /\ PassesMountFlags(p)) =>
            IF WantedTransport(p) \notin registered
            THEN /\ vfsOutcome = "rejected"
                 /\ vfsRejectMsg = "Cannot find VFS module for: "
                 /\ vfsForwarded = <<>>
            ELSE /\ vfsOutcome = "forwarded"
                 /\ vfsForwarded = << [transport |-> WantedTransport(p),
                                       query     |-> CallAddress,
                                       method    |-> RequestFn(vfsCall),
                                       data      |-> RequestData(vfsCall)] >>

\* A call to a mount whose transport is not registered has been rejected
C15_Witness ==
    /\ CallMade
    /\ NamesMount(CallAddress, "shared")
    /\ mounts["shared"].transport = "EXAMPLE"
    /\ "EXAMPLE" \notin registered
    /\ vfsRejectMsg = "Cannot find VFS module for: "
    /\ vfsForwarded = <<>>

-----------------------------------------------------------------------------
(* Claims about the default transport *)

\* C5: for each operation of the default transport and every outcome of the
\* underlying filesystem calls, exactly one of resolve or reject is called,
\* and it is called exactly once: a call with no callback left pending has
\* settled once.
C5_SettledExactlyOnce == pc = "done" => Len(settled) = 1

\* C6: whenever an underlying filesystem call of an operation reports an
\* error, the operation calls reject with a message; it never throws out of
\* the callback and never leaves the call unsettled.
C6_FsErrorRejects ==
    (pc = "done" /\ fsFailed)
    => /\ ~threw
       /\ Len(settled) = 1
       /\ settled[1].how = "reject"

\* The path of the call's address, as resolveRequestPath returns it
OpPath == resolveRequestPath(mounts, SessionUser, op.path).path

\* C9: delete called with a path that is "", "." or "/" always rejects with a
\* permission-denied error and never removes anything from the filesystem.
C9_ProtectedDeleteRefused ==
    (op.method = "delete" /\ OpPath \in {<<>>, <<".">>, <<SLASH>>})
    => /\ removed = {}
       /\ pc = "done" => settled = <<Rejected("Permission denied")>>

\* The mount root of the call's address: the destination of its mount with
\* the placeholders substituted
OpMountRoot ==
    LET protocol == SplitQuery(op.path).protocol
    IN  Normalize(SubstituteTokens(MountDestination(mounts, protocol),
                                   SessionUser, protocol)).segs

\* C10: for every address with a configured mount, the resolved real path is
\* rooted under the mount's token-substituted destination, whatever '..'
\* segments the address holds.
C10_RealUnderMountRoot ==
    (pc # "idle" /\ MountOf(mounts, SplitQuery(op.path).protocol).kind # "undefined")
    => IsPrefix(OpMountRoot, op.real)

\* The call in progress is an upload without overwrite=true whose destination
\* exists
UploadRefusalDue ==
    /\ op.method = "upload"
    /\ op.mode = "keep"
    /\ pc = "upload_dest_cb"
    /\ FsExists(fs, UploadDest)

\* C11: upload without overwrite=true refuses to overwrite: when the
\* destination exists the call rejects and the destination's content is
\* unchanged; with overwrite=true a finished transfer leaves the uploaded
\* content at the destination.
C11_UploadRefusesOverwrite ==
    [][ /\ UploadRefusalDue =>
            /\ pc' = "done"
            /\ settled' = <<Rejected("File or directory already exist.")>>
            /\ fs'[UploadDest] = fs[UploadDest]
        /\ (op.method = "upload" /\ pc = "upload_stream"
               /\ pc' = "upload_unlink_cb") =>
            /\ fs'[UploadDest] = File(UploadData)
            /\ (op.mode = "keep" => ~FsExists(fs, UploadDest)) ]_vars

\* An upload without overwrite=true onto an existing file was refused
C11_Witness ==
    /\ op.method = "upload"
    /\ op.mode = "keep"
    /\ pc = "done"
    /\ settled = <<Rejected("File or directory already exist.")>>
    /\ FsIsFile(fs, UploadDest)
    /\ fs[UploadDest].data # UploadData

\* C12: after any upload call has finished (transfer done, stream error, or
\* refusal because the destination exists) the temporary source file of the
\* upload no longer exists.
C12_UploadSourceUnlinked ==
    (op.method = "upload" /\ pc = "done") => ~FsExists(fs, UploadSource)

\* C13: exists resolves true when the addressed path exists and rejects with
\* a not-found message when it does not.
C13_ExistsReportsExistence ==
    (op.method = "exists" /\ pc = "done") =>
        settled = << IF FsExists(fs, op.real) THEN Resolved("true")
                     ELSE Rejected("No such file or directory") >>

\* C14: mkdir on a path that already exists always rejects with an
\* already-exists error and never resolves, including when the path is
\* created by another request between the existence check and the directory
\* creation: a finished mkdir that did not itself create the path it finds
\* present has rejected with the already-exists message.
C14_MkdirExistingRejects ==
    (op.method = "mkdir" /\ pc = "done" /\ FsExists(fs, op.real)
       /\ settled # <<Resolved("true")>>) =>
        settled = <<Rejected("File or directory already exist.")>>

\* C26: read with options.raw = false resolves with a string of the form
\* data:<mime>;base64,<payload> whose payload decodes to the bytes of the
\* file: a read of that kind that found its file has resolved once it is
\* over.
C26_ReadBase64Resolves ==
    (op.method = "read" /\ op.mode = "base64" /\ pc = "done" /\ ~fsFailed) =>
        /\ Len(settled) = 1
        /\ settled[1].how = "resolve"

\* C27: write with options.raw = true and rawtype 'utf8' of a string to a
\* fresh path, followed by read with options.raw = true (no stream option)
\* of the same path, makes the read resolve with the content that was
\* written.
C27_WriteThenReadRaw ==
    ( /\ op.method = "read"
      /\ op.mode = "stream"
      /\ op.path = NewPath
      /\ pc = "done"
      /\ FsIsFile(fs, op.real)
      /\ fs[op.real].data = WriteData ) =>
        /\ Len(settled) = 1
        /\ settled[1].how = "resolve"

-----------------------------------------------------------------------------
(* The request pipeline as a specification *)

InitServer ==
    /\ mounts = ServerMounts
    /\ session = ""
    /\ hreq = NoRequest
    /\ hpc = "idle"
    /\ gates = <<>>
    /\ handlerCalls = 0
    /\ responses = <<>>
    /\ rejection = ""
    /\ proxyCalls = <<>>
    /\ proxy \in BOOLEAN
    /\ proxies \in ProxyConfigs
    /\ TransportIdle
    /\ DispatchIdle
    /\ PackagesIdle
    /\ AuxIdle

SpecServer == InitServer /\ [][NextServer]_vars

-----------------------------------------------------------------------------
(* Claims about the request pipeline *)

Passed(g) == [gate |-> g, ok |-> TRUE]

Refused(g) == [gate |-> g, ok |-> FALSE]

IsErrorResponse(r) ==
    \/ r.kind \in {"json", "message"} /\ r.error # "null"
    \/ r.kind = "raw" /\ r.status >= 400

\* C4: checkSession is called before any protected operation except the login
\* API call, then checkPermission; if either rejects, the VFS transport or
\* API handler is never invoked for the request and an error response is
\* sent.
C4_GateBeforeHandler ==
    /\ handlerCalls > 0 =>
         gates = (IF Classify(hreq) = "api" /\ hreq.endpoint = "login"
                  THEN <<>> ELSE <<Passed("checkSession")>>)
                 \o <<Passed("checkPermission")>>
    /\ (\E i \in 1..Len(gates) : ~gates[i].ok) =>
         /\ handlerCalls = 0
         /\ Len(responses) = 1
         /\ IsErrorResponse(responses[1])

\* A logged-in session's request is refused by checkPermission
C4_Witness ==
    /\ gates = <<Passed("checkSession"), Refused("checkPermission")>>
    /\ Classify(hreq) = "vfs"
    /\ handlerCalls = 0
    /\ Len(responses) = 1

\* C7: every inbound HTTP request not handed to the proxy (GET; POST with a
\* JSON body; POST with a multipart body; POST with any other content type)
\* receives exactly one response: once nothing of it is pending, one
\* response has been written.
C7_ExactlyOneResponse ==
    (hpc = "done" /\ ~hreq.proxied) => Len(responses) = 1

\* C8: when a VFS or API handler or a permission step rejects, the response is
\* the JSON envelope with error equal to the rejection's message and result
\* false, sent with HTTP status 500.
C8_RejectionIs500Envelope ==
    rejection # "" =>
        responses = << [kind |-> "json", status |-> 500, error |-> rejection,
                        result |-> "false"] >>

\* C21: every message the server sends in reply to a WebSocket request
\* carries the _index the client supplied in that request, and a stream or
\* file response attempted over WebSocket is sent as a JSON message with
\* error 'Not available' instead.
C21_WebsocketRepliesIndexed ==
    hreq.channel = "ws" =>
        \A i \in 1..Len(responses) :
            /\ responses[i].kind = "message"
            /\ responses[i].index = hreq.index
            /\ responses[i].call \in {"stream", "file"} =>
                 responses[i].error = "Not available"

\* A read over WebSocket whose stream was answered with 'Not available'
C21_Witness ==
    /\ hreq.channel = "ws"
    /\ hreq.endpoint = "read"
    /\ hreq.index = "2"
    /\ hpc = "done"
    /\ responses = <<WebsocketJson("2", "stream", "Not available", "undefined")>>

\* The keys of instance.CONFIG.proxies that match the url of the request
MatchingRules == { k \in 1..Len(proxies) : RuleMatches(proxies[k], hreq.path) }

\* The request went to the first of the matching keys, once, and nothing of
\* the pipeline ran for it
HandedToFirstRule ==
    /\ \E k \in MatchingRules :
          /\ \A j \in MatchingRules : k <= j
          /\ proxyCalls = <<k>>
    /\ hpc = "done"
    /\ gates = <<>>
    /\ handlerCalls = 0
    /\ responses = <<>>

\* C22: where the proxy server exists, an HTTP request whose url matches a
\* key of the configured proxies (literal or regexp) is handed to proxy.web
\* exactly once, for the first matching key, and body parsing, the permission
\* gate and the VFS, API or static dispatch never run for it; a request
\* that matches no key is not handed to the proxy.
C22_FirstProxyRuleOnly ==
    hreq.channel = "http" =>
        IF proxy /\ MatchingRules # {}
        THEN HandedToFirstRule
        ELSE proxyCalls = <<>>

\* C22 as it is stated, for every server: a request whose url matches a
\* configured proxy rule is handed to the proxy exactly once and the pipeline
\* never runs for it; a request that matches none is not handed over.
C22_AsStated ==
    hreq.channel = "http" =>
        IF MatchingRules # {}
        THEN HandedToFirstRule
        ELSE proxyCalls = <<>>

\* A url that two keys match, handed over for the first of them
C22_Witness ==
    /\ proxy
    /\ Len(proxies) = 2
    /\ proxies[1].kind = "regexp"
    /\ hreq.path = ProxyPath
    /\ MatchingRules = {1, 2}
    /\ proxyCalls = <<1>>
    /\ hpc = "done"

\* A file below dist/packages/<repo>/<name>/
IsPackageFile(file) ==
    LET under == Segments(DirsRoot) \o DistName \o <<"packages">>
    IN  /\ Len(file.segs) >= Len(under) + 3
        /\ SubSeq(file.segs, 1, Len(under)) = under

\* C23: a package-scoped static asset (packages/<repo>/<name>/<file>) is
\* served only after both the 'package' permission check and the session
\* check have succeeded; an ordinary static asset is served without either
\* check.
C23_PackageAssetGated ==
    hpc = "file_exists" =>
        IF IsPackageFile(ServedFile(hreq.path))
        THEN gates = <<Passed("checkSession"), Passed("checkPermission"),
                       Passed("checkSession")>>
        ELSE gates = <<>>

\* C29: the session is destroyed on logout: after logout has been resolved,
\* checkSession rejects, and protected operations are refused until a new
\* login occurs.
C29_LogoutDestroysSession ==
    ( /\ Classify(hreq) = "api"
      /\ hreq.endpoint = "logout"
      /\ hpc = "done"
      /\ Len(responses) = 1
      /\ responses[1].error = "null" ) => ~checkSession

-----------------------------------------------------------------------------
(* The package manager's inputs *)

\* The user's package search paths
UserPackages == <<"home", SEP, SLASH, ".packages">>

UserApps == <<"home", SEP, SLASH, "apps">>

\* Install destinations: a new directory and an installed package's
NewDest == JoinSlash(UserPackages, <<"AppNew">>)

TakenDest == JoinSlash(UserPackages, <<"AppB">>)

\* Archives: one that decodes, one that breaks after its first member, and an
\* address with no file
GoodZip == <<"home", SEP, SLASH, "good.zip">>

BrokenZip == <<"home", SEP, SLASH, "broken.zip">>

NoZip == <<"home", SEP, SLASH, "none.zip">>

SystemPackages ==
    [k \in {"AppA", "AppC"} |-> Package(k, <<"system">>)]

PackagesManifest ==
    [k \in {"AppB", "AppC"} |-> Package(k, JoinSlash(UserPackages, <<k>>))]

AppsManifest ==
    [k \in {"AppD"} |-> Package(k, JoinSlash(UserApps, <<k>>))]

\* The filesystem at startup, but for the manifest of the apps search path
PackageFsBase ==
    LET pk    == AliceRoot \o <<".packages">>
        apps  == AliceRoot \o <<"apps">>
        dirs  == {<<"opt">>, <<"opt", "osjs">>, <<"opt", "osjs", "server">>,
                  <<"srv">>, <<"srv", "users">>, AliceRoot, pk, apps,
                  pk \o <<"AppB">>, pk \o <<".trash">>,
                  apps \o <<"AppD">>, apps \o <<"AppE">>}
        files ==
            (ServerManifest :> JsonDists([d \in {DistName[1]} |-> SystemPackages]))
            @@ (pk \o <<"packages.json">> :> JsonMap(PackagesManifest))
            @@ (pk \o <<"README">> :> Text)
            @@ (pk \o <<"AppB", "metadata.json">> :> JsonMeta("AppB"))
            @@ (pk \o <<".trash", "metadata.json">> :> JsonMeta("AppT"))
            @@ (apps \o <<"AppD", "metadata.json">> :> JsonMeta("AppD"))
            @@ (apps \o <<"AppE", "metadata.json">> :> Text)
            @@ (AliceRoot \o <<"good.zip">> :> Zip(<<"main.js", "metadata.json">>))
            @@ (AliceRoot \o <<"broken.zip">> :> Zip(<<"main.js", BadEntry>>))
    IN  [q \in dirs \cup DOMAIN files |->
            IF q \in dirs THEN Dir ELSE File(files[q])]

\* The apps search path has no manifest, one that does not parse, or one
PackageFsConfigs ==
    LET manifest == AliceRoot \o <<"apps", "packages.json">>
    IN  { PackageFsBase,
          FsPut(PackageFsBase, manifest, File(Text)),
          FsPut(PackageFsBase, manifest, File(JsonMap(AppsManifest))) }

PackageMountConfigs ==
    { [home |-> StringMount(HomeTemplate)],
      [home |-> ObjectMount(HomeTemplate, "__default__", "true", "true")] }

PkCallOf(fn, zip, dest, paths, scope, action) ==
    [fn |-> fn, zip |-> zip, dest |-> dest, paths |-> paths, scope |-> scope,
     action |-> action]

\* The calls of the package manager
PackageCalls ==
    {PkCallOf("install", z, d, <<UserPackages>>, "", "") :
        z \in {GoodZip, BrokenZip, NoZip}, d \in {NewDest, TakenDest}}
    \cup {PkCallOf("install", GoodZip, MISSING, <<UserPackages>>, "", "")}
    \cup {PkCallOf("list", MISSING, MISSING, p, s, "") :
            p \in {<<UserPackages, UserApps>>, <<UserApps, UserPackages>>,
                   NoPaths},
            s \in {"", "system", "user", "all"}}
    \cup {PkCallOf("cache", MISSING, MISSING, p, "user", "generate") :
            p \in {<<UserPackages, UserApps>>, <<UserApps>>}}
    \cup {PkCallOf("cache", MISSING, MISSING, <<UserApps>>, "system", "generate"),
          PkCallOf("cache", MISSING, MISSING, <<UserApps>>, "user", "clear")}

InitPackages ==
    /\ mounts \in PackageMountConfigs
    /\ fs \in PackageFsConfigs
    /\ pc = "idle"
    /\ op = Idle
    /\ settled = <<>>
    /\ threw = FALSE
    /\ responded = <<>>
    /\ fsFailed = FALSE
    /\ removed = {}
    /\ calls = 0
    /\ DispatchIdle
    /\ ServerIdle
    /\ PackagesIdle
    /\ AuxIdle

NextPackages ==
    \/ \E c \in PackageCalls :
          \/ PkInstall(c)
          \/ PkList(c)
          \/ PkCache(c)
    \/ InstallExistsCb
    \/ InstallMkdirExistsCb
    \/ InstallMkdirCb
    \/ ZipStreamError
    \/ ParserEntry
    \/ ParserError
    \/ ParserFinish
    \/ EntryWriteSettles
    \/ InstallDeleteExistsCb
    \/ InstallRemoveCb
    \/ SystemMetaCb
    \/ UserMetaCb
    \/ UserMetaDone
    \/ GenScandirCb
    \/ GenReadCb
    \/ GenWriteCb
    \/ GenDone
    \/ PkFinish

SpecPackages == InitPackages /\ [][NextPackages]_vars

-----------------------------------------------------------------------------
(* Installs of two requests to one destination *)

NextInstalls ==
    \/ NextPackages
    \/ ConcurrentInstall

SpecInstalls == InitPackages /\ [][NextInstalls]_vars

-----------------------------------------------------------------------------
(* Claims about the package manager *)

InstallDest == RealOf(pkcall.dest)

\* C16: install rejects when the destination already exists, and in that case
\* it neither creates, modifies nor deletes anything at the destination: the
\* step that finds the destination present rejects and leaves the filesystem
\* as it is.
C16_InstallRefusesExistingDest ==
    [][ (pkpc = "install_exists_cb" /\ FsExists(fs, InstallDest)) =>
            /\ pkpc' = "done"
            /\ pksettled' = <<"reject">>
            /\ fs' = fs ]_vars

\* An install onto an installed package's directory has been rejected
C16_Witness ==
    /\ pkcall.fn = "install"
    /\ pkcall.dest = TakenDest
    /\ pkpc = "done"
    /\ pksettled = <<"reject">>
    /\ pkresult = "File or directory already exist."
    /\ FsIsFile(fs, InstallDest \o <<"metadata.json">>)

\* The install in progress passed the check of its destination and then
\* found the destination present: another install has created it
FoundOthersDirectory ==
    /\ pkcall.fn = "install"
    /\ pkpc \in {"install_delete_exists_cb", "install_remove_cb"}
    /\ pkresult = "File or directory already exist."
    /\ FsIsDir(fs, RealOf(pkcall.dest))

\* C35: when two install calls for the same destination are interleaved, at
\* most one of them resolves, and the cleanup delete of the failing install
\* never removes the destination directory that the other install created
\* and is extracting into.
C35_CleanupSparesOthersDirectory ==
    [][ FoundOthersDirectory => FsIsDir(fs', RealOf(pkcall.dest)) ]_vars

\* C17: if any step of install after the destination check fails (directory
\* creation, opening the zip stream, decoding the archive, writing an entry),
\* a delete of the destination is attempted and finishes before reject is
\* called: a failed install ends rejected with the destination absent.
C17_FailedInstallCleansUp ==
    (pkcall.fn = "install" /\ pkpc = "done" /\ pkfailed) =>
        /\ pksettled = <<"reject">>
        /\ pkdeletes = 1
        /\ ~FsExists(fs, InstallDest)

\* C18: install resolves true only after every archive entry's write stream
\* has been opened and has finished writing; it never reports success while
\* an entry write is pending or has failed.
C18_InstallJoinsEntryWrites ==
    (pkcall.fn = "install" /\ "resolve" \in {pksettled[i] : i \in DOMAIN pksettled}
       /\ pkpc = "done") =>
        \A i \in 1..Len(ArchiveEntries) :
            /\ ArchiveEntries[i] \in DOMAIN pkwrites
            /\ pkwrites[ArchiveEntries[i]] = "done"

\* The manifest of a search path, if list can read it
UserManifestAt(path) ==
    LET real == RealOf(JoinSlash(path, <<"packages.json">>))
    IN  IF mounts["home"].enabled # "false" /\ FsIsFile(fs, real)
           /\ fs[real].data.type = "json-map"
        THEN fs[real].data.pkgs ELSE EmptyObject

\* The search paths of the call that hold package id k in a readable manifest
HoldersOf(k) ==
    {i \in 1..Len(PathsOf(pkcall)) : k \in DOMAIN UserManifestAt(PathsOf(pkcall)[i])}

LastHolderOf(k) == CHOOSE i \in HoldersOf(k) : \A j \in HoldersOf(k) : j <= i

\* C19: list with no scope returns the union of the system manifest and all
\* readable user manifests, each entry tagged scope 'system' or 'user'; for an
\* id present in both the system entry is returned; a user manifest that
\* cannot be read is skipped without rejecting the call.
C19_ListMergesSystemFirst ==
    (pkcall.fn = "list" /\ pkcall.scope = "" /\ pkpc = "done") =>
        LET system == fs[ServerManifest].data.dists[DistName[1]]
            users  == UNION {DOMAIN UserManifestAt(PathsOf(pkcall)[i]) :
                               i \in 1..Len(PathsOf(pkcall))}
        IN  /\ pksettled = <<"resolve">>
            /\ DOMAIN ListResult = DOMAIN system \cup users
            /\ \A k \in DOMAIN ListResult :
                 ListResult[k] =
                   IF k \in DOMAIN system
                   THEN [system[k] EXCEPT !.scope = "system"]
                   ELSE [UserManifestAt(PathsOf(pkcall)[LastHolderOf(k)])[k]
                           EXCEPT !.scope = "user"]

\* A list over a manifest that shares an id with the system's and one that
\* does not parse has resolved
C19_Witness ==
    /\ pkcall.fn = "list"
    /\ pkcall.scope = ""
    /\ pkcall.paths = <<UserPackages, UserApps>>
    /\ pkpc = "done"
    /\ pksettled = <<"resolve">>
    /\ fs[AliceRoot \o <<"apps", "packages.json">>].data.type = "text"
    /\ ListResult["AppC"].scope = "system"
    /\ ListResult["AppB"].scope = "user"

\* The packages whose metadata file is found in an immediate subdirectory of
\* the search path
FoundUnder(path) ==
    LET real == RealOf(path)
    IN  {n \in {NameOrder[i] : i \in DOMAIN NameOrder} \ DotNames :
            /\ FsIsDir(fs, real \o <<n>>)
            /\ FsIsFile(fs, real \o <<n, "metadata.json">>)
            /\ fs[real \o <<n, "metadata.json">>].data.type = "json-meta"}

\* C20: cache with action 'generate' and scope 'user' writes, for each search
\* path P in paths, a manifest to P/packages.json that contains exactly the
\* packages found in an immediate subdirectory of P, and no package found
\* under a different search path.
C20_GeneratedManifestPerPath ==
    (pkcall.fn = "cache" /\ pkcall.action = "generate" /\ pkcall.scope = "user"
       /\ pkpc = "done" /\ ~pkfailed) =>
        \A i \in 1..Len(PathsOf(pkcall)) :
            LET real == RealOf(JoinSlash(PathsOf(pkcall)[i], <<"packages.json">>))
            IN  /\ FsIsFile(fs, real)
                /\ fs[real].data.type = "json-map"
                /\ DOMAIN fs[real].data.pkgs = FoundUnder(PathsOf(pkcall)[i])

-----------------------------------------------------------------------------
(* The resolver's inputs *)

\* Session usernames: a plain one, and names that read as a placeholder
Usernames == {<<"alice">>, <<"%DIST%">>, <<"%DROOT%">>, <<"%MOUNTPOINT%">>}

WildTemplate == <<"%DROOT%", SLASH, "%DIST%", SLASH, "%MOUNTPOINT%">>

\* A destination with a token that is no placeholder
UnknownTemplate == <<SLASH, "srv", SLASH, "%FOO%", SLASH, "%UID%">>

\* instance.CONFIG.vfs.mounts: a mount for home, for '*', for both, as a
\* string and as an object, an object without destination, and none
ResolverMountConfigs ==
    { [home |-> StringMount(HomeTemplate)],
      [home |-> StringMount(UnknownTemplate)],
      [home |-> ObjectMount(HomeTemplate, "unset", "unset", "unset")],
      [home |-> ObjectMount(UNDEFINED, "unset", "unset", "unset")],
      ("home" :> StringMount(HomeTemplate)) @@ ("*" :> StringMount(WildTemplate)),
      ("home" :> ObjectMount(UNDEFINED, "unset", "unset", "unset"))
          @@ ("*" :> StringMount(WildTemplate)),
      ("*" :> ObjectMount(WildTemplate, "unset", "unset", "unset")),
      [p \in {} |-> NoMount] }

\* The addresses resolved
ResolverQueries ==
    { <<"home", SEP, "docs", SLASH, "a.txt">>,
      <<"home", SEP, SLASH, "docs">>,
      <<"home", SEP, "..", SLASH, "bob">>,
      <<"shared", SEP, "x">>,
      <<"constructor", SEP, "x">>,
      <<"docs", SLASH, "a.txt">> }

InitResolver ==
    /\ mounts \in ResolverMountConfigs
    /\ TransportIdle
    /\ DispatchIdle
    /\ ServerIdle
    /\ PackagesIdle
    /\ AuxIdle

NextResolver == \E u \in Usernames, q \in ResolverQueries : Resolve(u, q)

SpecResolver == InitResolver /\ [][NextResolver]_vars

-----------------------------------------------------------------------------
(* Claims about the resolver *)

\* The value a token of the destination stands for, a token that is no
\* placeholder standing for itself
ValueOf(token, username, protocol) ==
    CASE token = "%DIST%"       -> DistName
      [] token = "%UID%"        -> username
      [] token = "%USERNAME%"   -> username
      [] token = "%DROOT%"      -> DirsRoot
      [] token = "%MOUNTPOINT%" -> protocol
      [] OTHER                  -> <<token>>

\* The destination with each of its tokens replaced by its value, the values
\* themselves left as they are
RECURSIVE SubstituteOnce(_, _, _)
SubstituteOnce(found, username, protocol) ==
    IF found = <<>> THEN <<>>
    ELSE ValueOf(Head(found), username, protocol)
         \o SubstituteOnce(Tail(found), username, protocol)

\* The destination string the mounts give a protocol: its own mount's, else
\* the one of '*'
ConfiguredDestination(protocol) ==
    LET has(k) == Len(k) = 1 /\ k[1] \in DOMAIN mounts
        dest(k) == mounts[k[1]].destination
    IN  CASE has(protocol) -> dest(protocol)
          [] has(<<"*">>)  -> dest(<<"*">>)
          [] OTHER         -> UNDEFINED

\* C24: resolving an address substitutes each of the placeholders %DIST%,
\* %UID%, %USERNAME%, %DROOT%, %MOUNTPOINT% in the mount's destination with
\* its value and appends the address path, leaving unknown tokens untouched
\* (home -> /srv/users/%USERNAME% and username alice resolve
\* home://docs/a.txt to /srv/users/alice/docs/a.txt); a value inserted for
\* one placeholder is never itself substituted again as another placeholder.
C24_PlaceholdersSubstitutedOnce ==
    LET r     == resolution.result
        found == MountDestination(mounts, r.protocol)
    IN  (resolution.called /\ found # UNDEFINED) =>
            r.real = PathJoin(SubstituteOnce(found, resolution.username,
                                             r.protocol),
                              r.path)

\* C25: when the address's protocol has no mount entry the resolver uses the
\* wildcard '*' mount's destination; when neither the protocol nor '*'
\* provides a destination string, real is null; query, protocol and path are
\* returned in either case.
C25_WildcardFallback ==
    LET r     == resolution.result
        parts == SplitQuery(resolution.query)
        found == ConfiguredDestination(parts.protocol)
    IN  resolution.called =>
            /\ r.query = resolution.query
            /\ r.protocol = parts.protocol
            /\ r.path = ReplaceLeadingSlash(parts.rest, <<>>)
            /\ r.real = IF found = UNDEFINED THEN NullPath
                        ELSE PathJoin(SubstituteTokens(found, resolution.username,
                                                       parts.protocol),
                                      r.path)

-----------------------------------------------------------------------------
(* The inputs of find *)

\* The length of the directory listings
MaxEntries == 2

FileNames == {<<"a", "b">>, <<"A", "B", "c">>, <<"b", "a">>, <<"C">>}

\* What fs.readdir lists: names of the directory, each once
Listings ==
    { l \in UNION { [1..n -> FileNames] : n \in 0..MaxEntries } :
        \A i, j \in 1..Len(l) : i # j => l[i] # l[j] }

FindQueries ==
    { MISSING, <<>>, <<"a">>, <<"A">>, <<"a", "b">>, <<"B", "A">>, <<"b", "c">>,
      <<"d">> }

InitFind ==
    /\ mounts = ServerMounts
    /\ TransportIdle
    /\ DispatchIdle
    /\ ServerIdle
    /\ PackagesIdle
    /\ AuxIdle

NextFind == \E l \in Listings, q \in FindQueries : Find(l, q)

SpecFind == InitFind /\ [][NextFind]_vars

-----------------------------------------------------------------------------
(* Claims about find *)

\* The two characters are the same letter, whatever their case
SameLetter(x, y) ==
    \E pair \in {<<"a", "A">>, <<"b", "B">>, <<"c", "C">>} :
        {x, y} \subseteq {pair[1], pair[2]} \/ x = y

\* q occurs in name, case ignored
OccursIn(q, name) ==
    \E i \in 0..(Len(name) - Len(q)) :
        \A j \in 1..Len(q) : SameLetter(name[i + j], q[j])

\* C28: find with recursive false resolves with exactly the directory
\* entries whose filename contains the query as a case-insensitive substring,
\* never including '.' or '..'; an empty or missing query returns every
\* entry.
C28_FindFiltersByName ==
    listing.called =>
        LET q == IF listing.query = MISSING THEN <<>> ELSE listing.query
        IN  /\ listing.result =
                 SelectSeq(listing.list, LAMBDA name : OccursIn(q, name))
            /\ \A i \in 1..Len(listing.result) :
                 listing.result[i] \notin {DOT, DOTDOT}
            /\ q = <<>> => listing.result = listing.list

\* A query in capitals finds a name in small letters and one in capitals,
\* and leaves the third out
C28_Witness ==
    /\ listing.called
    /\ listing.query = <<"B", "A">>
    /\ listing.list = <<<<"b", "a">>, <<"a", "b">>>>
    /\ listing.result = <<<<"b", "a">>>>

-----------------------------------------------------------------------------
(* The connection as a specification *)

\* The success callbacks the callers pass
Callbacks == {"f", "g"}

InitConnection ==
    /\ mounts = ServerMounts
    /\ TransportIdle
    /\ DispatchIdle
    /\ ServerIdle
    /\ PackagesIdle
    /\ AuxIdle

\* The messages that arrive carry any _index: of a pending call, of one
\* answered before, or of no call at all
NextConnection ==
    \/ \E cb \in Callbacks, sends \in BOOLEAN : CallWS(cb, sends)
    \/ \E idx \in 0..MaxWsCalls : WsOnMessage(idx)

SpecConnection == InitConnection /\ [][NextConnection]_vars

-----------------------------------------------------------------------------
(* Claims about the connection *)

\* The positions of wsinvoked at which a success callback was called for idx
DeliveriesOf(idx) ==
    { k \in 1..Len(wsinvoked) :
        wsinvoked[k].idx = idx /\ wsinvoked[k].callback # "onerror" }

-----------------------------------------------------------------------------
(* The handler's calls as a specification *)

InitHandlerCalls ==
    /\ mounts = ServerMounts
    /\ TransportIdle
    /\ DispatchIdle
    /\ ServerIdle
    /\ PackagesIdle
    /\ resolution = NoResolution
    /\ listing = NoListing
    /\ ClientIdle
    /\ ConnectionIdle
    /\ offline = FALSE
    /\ netEvent = "none"
    /\ connType \in {"http", "ws", "standalone"}
    /\ apicalls = <<>>
    /\ saveTimeout = 0
    /\ timers = {}
    /\ timerCount = 0
    /\ storageCalls = 0
    /\ bursts = 0
    /\ BootIdle
    /\ GatewayIdle

NextHandlerCalls ==
    \/ \E method \in {"FS", "API"} : CallAPI(method)
    \/ OnOffline
    \/ OnOnline
    \/ SaveSettings
    \/ \E id \in 1..MaxSaves : TimerFires(id)

SpecHandlerCalls == InitHandlerCalls /\ [][NextHandlerCalls]_vars

-----------------------------------------------------------------------------
(* Claims about the handler's calls *)

\* C33: while the Handler's offline flag is set (after an 'offline' event and
\* before the next 'online' event) callAPI issues no connection request and
\* calls the error callback exactly once; once an 'online' event has been
\* handled, callAPI forwards requests to the connection again, unless the
\* client is a standalone one, which never forwards.
C33_OfflineBlocksCallAPI ==
    /\ offline <=> netEvent = "offline"
    /\ \A k \in 1..Len(apicalls) :
          /\ apicalls[k].after = "offline" =>
                apicalls[k].did.requests = 0 /\ apicalls[k].did.errors = 1
          /\ (apicalls[k].after = "online" /\ connType # "standalone") =>
                apicalls[k].did.requests = 1 /\ apicalls[k].did.errors = 0

\* C33 read without the condition on the connection type: every callAPI
\* after an 'online' event is forwarded to the connection
C33_AsStated ==
    \A k \in 1..Len(apicalls) :
        /\ apicalls[k].after = "offline" =>
              apicalls[k].did.requests = 0 /\ apicalls[k].did.errors = 1
        /\ apicalls[k].after = "online" =>
              apicalls[k].did.requests = 1 /\ apicalls[k].did.errors = 0

\* A call refused off-line, and the next call forwarded after 'online'
C33_Witness ==
    /\ Len(apicalls) = 2
    /\ apicalls[1].after = "offline"
    /\ apicalls[1].did = [requests |-> 0, errors |-> 1, vfs |-> FALSE]
    /\ apicalls[2].after = "online"
    /\ apicalls[2].did = [requests |-> 1, errors |-> 0, vfs |-> TRUE]

\* C40: saveSettings calls are coalesced: a call made while an earlier
\* call's 250 ms timer is pending cancels the earlier pending save, so a
\* burst of saveSettings calls results in exactly one storage.settings call.
C40_SaveSettingsCoalesced ==
    /\ Cardinality(timers) <= 1
    /\ storageCalls + Cardinality(timers) = bursts

-----------------------------------------------------------------------------
(* The server's start-up as a specification *)

\* The files of a step that can fail: 0 is the step itself (its directory or
\* file cannot be read, its only module throws), k its k-th module
Faults(env) ==
    {NoFault}
    \cup {Module(st, 0) : st \in {"loadConfiguration", "loadAPI", "loadAuth",
                                  "loadStorage", "loadVFS", "startup",
                                  "registerPackages"}}
    \cup {Module("loadAPI", k) : k \in 1..env.api}
    \cup {Module("loadVFS", k) : k \in 1..env.vfs}
    \cup {Module("registerPackages", k) : k \in 1..env.packages}

InitBoot ==
    /\ mounts = ServerMounts
    /\ TransportIdle
    /\ DispatchIdle
    /\ ServerIdle
    /\ PackagesIdle
    /\ resolution = NoResolution
    /\ listing = NoListing
    /\ ClientIdle
    /\ ConnectionIdle
    /\ HandlerCallsIdle
    /\ bootpc = "loadConfiguration"
    /\ bootloaded = <<>>
    /\ listening = FALSE
    /\ GatewayIdle
    /\ \E a \in 1..MaxModules, v \in 0..MaxModules, p \in 0..MaxModules :
         \E f \in Faults([api |-> a, vfs |-> v, packages |-> p]) :
            bootenv = [api |-> a, vfs |-> v, packages |-> p, fault |-> f]

NextBoot ==
    \/ LoadConfiguration
    \/ LoadAPI
    \/ LoadAuth
    \/ LoadStorage
    \/ LoadVFS
    \/ Startup
    \/ RegisterPackages
    \/ Start

SpecBoot == InitBoot /\ [][NextBoot]_vars

-----------------------------------------------------------------------------
(* Claims about the start-up *)

AllOf(step, n) == [i \in 1..n |-> Module(step, i)]

\* Everything the installation holds, in the order of the chain
AllLoaded ==
    AllOf("loadConfiguration", 1) \o AllOf("loadAPI", bootenv.api)
        \o AllOf("loadAuth", 1) \o AllOf("loadStorage", 1)
        \o AllOf("loadVFS", bootenv.vfs) \o AllOf("startup", 1)
        \o AllOf("registerPackages", bootenv.packages)

\* C32: the HTTP server starts listening only after the configuration, the API
\* methods, the auth module, the storage module and all VFS transports have
\* been loaded, in that order, and the packages have been registered; if any
\* loading step fails the server never starts listening.
C32_ListensAfterLoading ==
    /\ listening => bootloaded = AllLoaded
    /\ bootenv.fault # NoFault => ~listening
    /\ bootpc = "start" => bootloaded = AllLoaded

\* The server listens with two API files, two transports and two packages
C32_Witness ==
    /\ listening
    /\ bootenv.api = 2 /\ bootenv.vfs = 2 /\ bootenv.packages = 2
    /\ Len(bootloaded) = 10

\* A start-up stopped by its second package, which was never registered
C32_WitnessFailed ==
    /\ bootpc = "failed"
    /\ bootenv.fault = Module("registerPackages", 2)
    /\ Len(bootloaded) = 2 + bootenv.api + bootenv.vfs + 3
    /\ ~listening

-----------------------------------------------------------------------------
(* The gateway to the dispatcher as a specification *)

OtherAddress == <<"other", SEP, SLASH, "c.txt">>

GatewayAddresses == {SharedAddress, OtherAddress}

\* vfs.mounts: shared is an object with any flags; '*', when configured, is
\* a template string or an object, plain, read-only or disabled
GatewayMountConfigs ==
    { [shared |-> ObjectMount(SharedDestination, "unset", e, r)] :
      e \in Tristate, r \in Tristate }
    \cup
    { ("shared" :> ObjectMount(SharedDestination, "unset", e, r))
        @@ ("*" :> w) :
      e \in Tristate, r \in Tristate,
      w \in {StringMount(WildTemplate),
             ObjectMount(WildTemplate, "unset", "unset", "unset"),
             ObjectMount(WildTemplate, "unset", "unset", "true"),
             ObjectMount(WildTemplate, "unset", "false", "unset")} }

\* The filesystem requests the server hands to _vfsCall
GatewayCalls ==
    { [verb |-> "POST", endpoint |-> <<m>>,
       data |-> [NoData EXCEPT !.path = a]] :
      m \in {"read", "write", "mkdir"}, a \in GatewayAddresses }
    \cup
    { [verb |-> "GET", endpoint |-> <<"get", SLASH>> \o a, data |-> NoData] :
      a \in GatewayAddresses }

InitGateway ==
    /\ mounts \in GatewayMountConfigs
    /\ DispatchIdle
    /\ TransportIdle
    /\ ServerIdle
    /\ PackagesIdle
    /\ resolution = NoResolution
    /\ listing = NoListing
    /\ ClientIdle
    /\ ConnectionIdle
    /\ HandlerCallsIdle
    /\ BootIdle
    /\ caller \in {HttpObject(c) : c \in GatewayCalls}
    /\ permitted = NoPermission
    /\ wstream = NoStream

NextGateway ==
    \/ VfsCall
    \/ \E method \in {"exists", "mkdir", "delete"}, a \in GatewayAddresses :
          VfsInternalRequest(method, [NoData EXCEPT !.path = a])
    \/ \E a \in GatewayAddresses : CreateWriteStream(a)

SpecGateway == InitGateway /\ [][NextGateway]_vars

-----------------------------------------------------------------------------
(* Claims about the gateway *)

ProtocolOf(address) == SplitQuery(address).protocol

\* The mount is an object that is read-only or disabled
Protected(mount) ==
    mount.kind = "object" /\ (mount.ro = "true" \/ mount.enabled = "false")

\* C36: the dispatcher's createWriteStream passthrough never hands out a write
\* stream for an address whose mount is configured ro: true or enabled: false:
\* it fails without calling the transport's createWriteStream.
C36_NoWriteStreamOnProtectedMount ==
    wstream.outcome = "stream" =>
        ~Protected(MountOf(mounts, ProtocolOf(wstream.path)))

\* C37: the internal _request leaves the caller's http object unchanged
\* (http.request.method, endpoint, data and respond), so a GET that triggers
\* internal requests is still dispatched as a GET afterwards.
C37_RequestLeavesCallerUnchanged == [][caller' = caller]_vars

\* The mount resolveRequestPath takes the destination from:
\* mountpoints[protocol] || mountpoints['*']
ResolverMount(m, protocol) ==
    LET own == MountOf(m, protocol)
    IN  IF own.kind # "undefined" THEN own ELSE MountOf(m, <<"*">>)

\* C38: the mount whose enabled and ro flags the dispatcher enforces is the
\* mount whose destination the resolver uses; when the protocol has no mount
\* of its own and the wildcard mount '*' is ro: true or disabled, the writing
\* operations are denied.
C38_FlagsOfTheResolvedMount ==
    vfsOutcome # "none" =>
        LET fn       == RequestFn(vfsCall)
            protocol == ProtocolOf(findTransportQuery(fn, RequestData(vfsCall)))
        IN  MountDenies(ResolverMount(mounts, protocol), fn)
                => vfsOutcome = "rejected"

\* C39: for every filesystem request the method name passed to
\* checkPermission in the 'vfs' options is the method the dispatcher
\* executes; a GET filesystem request, always executed as a read, is
\* authorized as 'read'.
C39_PermissionForExecutedMethod ==
    permitted # NoPermission => permitted.method = <<permitted.executed>>

-----------------------------------------------------------------------------
(* The client as a specification *)

InitClient ==
    /\ mounts = ServerMounts
    /\ TransportIdle
    /\ DispatchIdle
    /\ ServerIdle
    /\ PackagesIdle
    /\ AuxIdle

NextClient ==
    \/ NewHandler
    \/ \E id \in 1..MaxHandlers : Destroy(id)
    \/ GetHandler

SpecClient == InitClient /\ [][NextClient]_vars

-----------------------------------------------------------------------------
(* Claims about the client *)

\* The Handler objects constructed and not destroyed
LiveHandlers == { id \in 1..Len(handlers) : handlers[id] = "live" }

\* C30: at most one client Handler instance exists at any time: constructing
\* a Handler while one exists throws and leaves the existing instance
\* registered; after destroy() of the existing instance a new Handler can be
\* constructed; getHandler() always returns the single live instance or
\* null.
C30_SingleHandler ==
    /\ Cardinality(LiveHandlers) <= 1
    /\ handlerInstance.kind = "object" => LiveHandlers = {handlerInstance.id}
    /\ handlerInstance.kind # "object" => LiveHandlers = {}
    /\ constructed = "threw" => handlerInstance.kind = "object"
    /\ constructed = "ok" => handlerInstance = Instance(Len(handlers))

====
